---- MODULE Spec2Model ----
(***************************************************************************)
(* Mayhap: a grammar-based random text generator.                          *)
(*                                                                         *)
(* The model follows src/mayhap/generator.py (MayhapGenerator), with the   *)
(* weighted selection of src/mayhap/rule.py and the string transforms of   *)
(* src/mayhap/modifiers.py.                                                *)
(*                                                                         *)
(* Python strings are sequences of one-character strings, so that the      *)
(* character-level code (modifiers, markers) is computed, not assumed.     *)
(* Random selection is a nondeterministic choice over the values that      *)
(* random.choices / random.choice can return.                              *)
(***************************************************************************)
EXTENDS Integers, Sequences, FiniteSets, TLC

----------------------------------------------------------------------------
(* Tokens and rules (src/mayhap/tokens.py, src/mayhap/rule.py)             *)

\* A raw text segment of a rule (a Python str among the tokens).
Str(s) == [kind |-> "str", string |-> s]

LiteralToken(string, modifiers) ==
    [kind |-> "literal", string |-> string, modifiers |-> modifiers]

PatternToken(tokens, modifiers) ==
    [kind |-> "pattern", tokens |-> tokens, modifiers |-> modifiers]

\* range(start, stop): the integers start .. stop-1
RangeToken(start, stop, alpha, modifiers) ==
    [kind |-> "range", start |-> start, stop |-> stop, alpha |-> alpha,
     modifiers |-> modifiers]

SymbolToken(symbol, modifiers) ==
    [kind |-> "symbol", symbol |-> symbol, modifiers |-> modifiers]

VariableToken(variable, modifiers) ==
    [kind |-> "variable", variable |-> variable, modifiers |-> modifiers]

AssignmentToken(variable, value, echo) ==
    [kind |-> "assignment", variable |-> variable, value |-> value,
     echo |-> echo]

ChoiceToken(rules) == [kind |-> "choice", rules |-> rules]

DEFAULT_WEIGHT == 1

Rule(tokens, weight) == [tokens |-> tokens, weight |-> weight]

\* Placeholder in results that carry no rule (the call raised).
NoRule == Rule(<<>>, 0)

----------------------------------------------------------------------------
(* Characters and Python string operations                                 *)

LowerAlpha == <<"a","b","c","d","e","f","g","h","i","j","k","l","m",
                "n","o","p","q","r","s","t","u","v","w","x","y","z">>
UpperAlpha == <<"A","B","C","D","E","F","G","H","I","J","K","L","M",
                "N","O","P","Q","R","S","T","U","V","W","X","Y","Z">>
DigitChars == <<"0","1","2","3","4","5","6","7","8","9">>

Range(f) == {f[i] : i \in DOMAIN f}

IndexOf(c, seq) == CHOOSE i \in DOMAIN seq : seq[i] = c

IsLower(c) == c \in Range(LowerAlpha)
IsUpper(c) == c \in Range(UpperAlpha)
IsAlpha(c) == IsLower(c) \/ IsUpper(c)
IsDigit(c) == c \in Range(DigitChars)
DigitVal(c) == IndexOf(c, DigitChars) - 1

ToUpper(c) == IF IsLower(c) THEN UpperAlpha[IndexOf(c, LowerAlpha)] ELSE c
ToLower(c) == IF IsUpper(c) THEN LowerAlpha[IndexOf(c, UpperAlpha)] ELSE c

\* str.upper() / str.lower()
Upper(s) == [i \in 1..Len(s) |-> ToUpper(s[i])]
Lower(s) == [i \in 1..Len(s) |-> ToLower(s[i])]

\* str.capitalize(): first character upper case, the rest lower case
Capitalize(s) ==
    [i \in 1..Len(s) |-> IF i = 1 THEN ToUpper(s[i]) ELSE ToLower(s[i])]

\* str.title(): a cased character is upper case when the character before
\* it is not cased, lower case otherwise
Title(s) ==
    [i \in 1..Len(s) |->
        IF i = 1 \/ ~IsAlpha(s[i - 1]) THEN ToUpper(s[i]) ELSE ToLower(s[i])]

\* str.isdigit(): nonempty and all digits
StrIsDigit(s) == s # <<>> /\ \A i \in 1..Len(s) : IsDigit(s[i])

\* s[a:b] with Python's clamping and negative indices (0-based, b exclusive)
PyIndex(s, i) ==
    IF i < 0 THEN (IF i + Len(s) < 0 THEN 0 ELSE i + Len(s))
    ELSE IF i > Len(s) THEN Len(s) ELSE i

PySlice(s, a, b) == SubSeq(s, PyIndex(s, a) + 1, PyIndex(s, b))

RECURSIVE DigitsValue(_)
DigitsValue(s) ==
    IF s = <<>> THEN 0
    ELSE 10 * DigitsValue(SubSeq(s, 1, Len(s) - 1)) + DigitVal(s[Len(s)])

RECURSIVE Pow10(_)
Pow10(k) == IF k = 0 THEN 1 ELSE 10 * Pow10(k - 1)

----------------------------------------------------------------------------
(* Inflection (src/mayhap/modifiers.py).  The optional inflect package is  *)
(* not installed: INFLECT is None and the built-in fallbacks run.          *)

INFLECT == FALSE

MOD_MUNDANE == <<"m","u","n","d","a","n","e">>
MOD_ARTICLE == <<"a">>
MOD_PLURAL == <<"s">>
MOD_ORDINAL == <<"t","h">>
MOD_CAPITALIZE == <<"c","a","p","i","t","a","l","i","z","e">>
MOD_LOWER == <<"l","o","w","e","r">>
MOD_UPPER == <<"u","p","p","e","r">>
MOD_TITLE == <<"t","i","t","l","e">>

\* A number read from text: n/d; d = 0 stands for None.
Number(n, d) == [n |-> n, d |-> d]
None == Number(0, 0)

get_article(word) ==
    IF word # <<>> /\ word[1] \in {"a", "e", "i", "o", "u"}
    THEN <<"a", "n">>
    ELSE <<"a">>

add_article(word) == get_article(word) \o <<" ">> \o word

get_plural(word, number) ==
    IF number # None /\ number.n = number.d THEN word ELSE word \o <<"s">>

get_ordinal(number) ==
    IF StrIsDigit(number)
    THEN LET last_digit == DigitVal(number[Len(number)])
         IN  IF last_digit = 1 THEN number \o <<"s", "t">>
             ELSE IF last_digit = 2 THEN number \o <<"n", "d">>
             ELSE IF last_digit = 3 THEN number \o <<"r", "d">>
             ELSE number \o <<"t", "h">>
    ELSE number \o <<"t", "h">>

----------------------------------------------------------------------------
(* Dynamic markers resolved on the concatenated text of a token sequence   *)
(* (src/mayhap/modifiers.py).  Positions are Python's: 0-based.            *)

At(s, i) == s[i + 1]

\* RE_ARTICLE = (a)\((n)\), ignoring case, matched at position i
ArticleAt(s, i) ==
    /\ i + 4 <= Len(s)
    /\ ToLower(At(s, i)) = "a"
    /\ At(s, i + 1) = "("
    /\ ToLower(At(s, i + 2)) = "n"
    /\ At(s, i + 3) = ")"

\* RE_PLURAL = \((s)\), ignoring case, matched at position i
PluralAt(s, i) ==
    /\ i + 3 <= Len(s)
    /\ At(s, i) = "("
    /\ ToLower(At(s, i + 1)) = "s"
    /\ At(s, i + 2) = ")"

\* The alphabetic run that starts at position i
RECURSIVE WordFrom(_, _)
WordFrom(s, i) ==
    IF i >= Len(s) \/ ~IsAlpha(At(s, i)) THEN <<>>
    ELSE <<At(s, i)>> \o WordFrom(s, i + 1)

\* The article written for the match at position m: the word is read from
\* match.end() + 1 on, and each letter of the marker gives its case.
ArticleFor(pattern, m) ==
    LET next_word == WordFrom(pattern, m + 4 + 1)
        article == IF next_word # <<>> THEN get_article(next_word) ELSE <<"a">>
        first == IF IsUpper(At(pattern, m))
                 THEN <<ToUpper(article[1])>> \o Tail(article)
                 ELSE article
    IN  IF IsUpper(At(pattern, m + 2))
        THEN <<first[1]>> \o Upper(Tail(first))
        ELSE first

RECURSIVE ResolveArticlesFrom(_, _, _, _)
ResolveArticlesFrom(pattern, i, last_match, output) ==
    IF i >= Len(pattern) THEN output \o PySlice(pattern, last_match, Len(pattern))
    ELSE IF ArticleAt(pattern, i)
    THEN ResolveArticlesFrom(pattern, i + 4, i + 4,
             output \o PySlice(pattern, last_match, i) \o ArticleFor(pattern, i))
    ELSE ResolveArticlesFrom(pattern, i + 1, last_match, output)

resolve_indefinite_articles(pattern) == ResolveArticlesFrom(pattern, 0, 0, <<>>)

\* pattern[start - 1::-1]: the characters before position start, last
\* first; with start = 0 the slice starts at index -1, the last character,
\* and runs over the whole text.
ReversedBefore(pattern, start) ==
    LET k == IF start = 0 THEN Len(pattern) ELSE start
    IN  [j \in 1..k |-> pattern[k - j + 1]]

\* previous_word_start: a local that is unbound until the scan assigns it
Unbound == [bound |-> FALSE, v |-> 0]
Bound(v) == [bound |-> TRUE, v |-> v]

\* The scan backwards from a "(s)" marker (lines 104-120): j is the
\* 1-based position in the reversed text, so offset = j - 1.
RECURSIVE ScanBack(_, _, _, _, _, _, _)
ScanBack(rev, j, start, word, number, building, pws) ==
    IF j > Len(rev)
    THEN [word |-> word, number |-> number, pws |-> pws]
    ELSE
    LET character == rev[j] IN
    IF building /\ IsAlpha(character)
    THEN ScanBack(rev, j + 1, start, <<character>> \o word, number, TRUE, pws)
    ELSE
    LET pws1 == IF building THEN Bound(start - (j - 1)) ELSE pws IN
    IF \/ IsDigit(character)
       \/ /\ number # <<>>
          /\ character \in {"-", "."}
          /\ number[1] \notin {"-", "."}
    THEN ScanBack(rev, j + 1, start, word, <<character>> \o number, FALSE, pws1)
    ELSE IF number # <<>>
    THEN [word |-> word, number |-> number, pws |-> pws1]
    ELSE ScanBack(rev, j + 1, start, word, number, FALSE, pws1)

CountOf(c, s) == Cardinality({i \in DOMAIN s : s[i] = c})

\* int(previous_number) or, with a '.', float(previous_number): the value
\* as a fraction, or ValueError for text that is no number ("1-2", "1.2.3")
ParseNumber(s) ==
    LET neg == s[1] = "-"
        body == IF neg THEN Tail(s) ELSE s
        dot == IF CountOf(".", body) = 1 THEN IndexOf(".", body) ELSE 0
        whole == IF dot = 0 THEN body ELSE SubSeq(body, 1, dot - 1)
        frac == IF dot = 0 THEN <<>> ELSE SubSeq(body, dot + 1, Len(body))
        sign == IF neg THEN -1 ELSE 1
    IN  IF CountOf("-", body) > 0 \/ CountOf(".", body) > 1
             \/ whole \o frac = <<>>
        THEN [err |-> "ValueError", number |-> None]
        ELSE [err |-> "",
              number |-> Number(sign * DigitsValue(whole \o frac),
                                Pow10(Len(frac)))]

ResolveResult(err, string) == [err |-> err, string |-> string]

\* One match of RE_PLURAL at position m (lines 103-140)
RECURSIVE ResolvePluralsFrom(_, _, _, _, _)
ResolvePluralsFrom(pattern, i, last_match, output, pws) ==
    IF i >= Len(pattern)
    THEN ResolveResult("", output \o PySlice(pattern, last_match, Len(pattern)))
    ELSE IF ~PluralAt(pattern, i)
    THEN ResolvePluralsFrom(pattern, i + 1, last_match, output, pws)
    ELSE
    LET sc == ScanBack(ReversedBefore(pattern, i), 1, i, <<>>, <<>>, TRUE, pws)
    IN  IF sc.word # <<>>
        THEN IF ~sc.pws.bound
             THEN ResolveResult("UnboundLocalError", output)
             ELSE
             LET out1 == output \o PySlice(pattern, last_match, sc.pws.v)
                 num == IF sc.number # <<>> THEN ParseNumber(sc.number)
                        ELSE [err |-> "", number |-> None]
             IN  IF num.err # ""
                 THEN ResolveResult(num.err, out1)
                 ELSE ResolvePluralsFrom(pattern, i + 3, i + 3,
                          out1 \o get_plural(sc.word, num.number), sc.pws)
        ELSE ResolvePluralsFrom(pattern, i + 3, i + 3,
                 output \o PySlice(pattern, last_match, i)
                        \o <<At(pattern, i + 1)>>,
                 sc.pws)

resolve_plurals(pattern) == ResolvePluralsFrom(pattern, 0, 0, <<>>, Unbound)

----------------------------------------------------------------------------
(* Weighted selection (src/mayhap/rule.py: choose_rule)                    *)

RECURSIVE SumWeights(_)
SumWeights(rules) ==
    IF rules = {} THEN 0
    ELSE LET r == CHOOSE q \in rules : TRUE
         IN r.weight + SumWeights(rules \ {r})

\* A selection that always returns one and the same rule
choose_rule_Fixed(rules) ==
    IF rules = {} THEN {[err |-> "IndexError", rule |-> NoRule]}
    ELSE {[err |-> "", rule |-> CHOOSE r \in rules : TRUE]}

\* random.choices(rules_tuple, weights)[0]: IndexError on an empty
\* population, ValueError when the weights total zero, otherwise any rule
\* of positive weight (a zero-weight rule owns an empty interval of the
\* cumulative weights and is never hit).
choose_rule(rules) ==
    IF rules = {} THEN {[err |-> "IndexError", rule |-> NoRule]}
    ELSE IF SumWeights(rules) <= 0 THEN {[err |-> "ValueError", rule |-> NoRule]}
    ELSE {[err |-> "", rule |-> r] : r \in {q \in rules : q.weight > 0}}

----------------------------------------------------------------------------
(* Generator state threaded through one call.  Python sets are objects:    *)
(* `shared` holds the symbols whose unused pool is the very set object of  *)
(* the grammar, so that removing a rule from the pool removes it from the  *)
(* grammar too.  `drawn` is the history of unique draws.                   *)

GenState(g, sh, vs, un, dr) ==
    [grammar |-> g, shared |-> sh, variables |-> vs, unused |-> un,
     drawn |-> dr]

\* Result of produce: err = "" and the rule, or the exception raised.
ProduceResult(err, name, rule, st) ==
    [err |-> err, name |-> name, rule |-> rule, st |-> st]

\* The refill without .copy(): the pool becomes the grammar's own set
SetCopy_SameObject(rules) == [rules |-> rules, shared |-> TRUE]

\* set.copy(): a new set object with the same rules
SetCopy(rules) == [rules |-> rules, shared |-> FALSE]

\* A refill that gathers the rules of every symbol instead of this one's
Refilled_FromAllSymbols(st, symbol) ==
    IF st.unused[symbol] = {}
    THEN GenState(st.grammar, st.shared \ {symbol}, st.variables,
                  [st.unused EXCEPT ![symbol] =
                      UNION {st.grammar[s] : s \in DOMAIN st.grammar}],
                  [st.drawn EXCEPT ![symbol] = {}])
    ELSE st

\* A refill before every draw, whether or not the pool is empty
Refilled_Eager(st, symbol) ==
    GenState(st.grammar, st.shared \ {symbol}, st.variables,
             [st.unused EXCEPT ![symbol] = st.grammar[symbol]],
             [st.drawn EXCEPT ![symbol] = {}])

\* if len(rules) == 0: self.unused[symbol] = self.grammar[symbol].copy()
Refilled(st, symbol) ==
    IF st.unused[symbol] = {}
    THEN LET c == SetCopy(st.grammar[symbol])
         IN  GenState(st.grammar,
                      IF c.shared THEN st.shared \cup {symbol}
                      ELSE st.shared \ {symbol},
                      st.variables,
                      [st.unused EXCEPT ![symbol] = c.rules],
                      [st.drawn EXCEPT ![symbol] = {}])
    ELSE st

\* A removal that takes the rule out of the pool and forgets the variables
Removed_AndVariables(st, symbol, rule) ==
    GenState(st.grammar, st.shared, <<>>,
             [st.unused EXCEPT ![symbol] = @ \ {rule}],
             st.drawn)

\* self.unused[symbol].remove(rule): the set object loses the rule, under
\* every name it is reachable by
Removed(st, symbol, rule) ==
    GenState(IF symbol \in st.shared
             THEN [st.grammar EXCEPT ![symbol] = @ \ {rule}]
             ELSE st.grammar,
             st.shared, st.variables,
             [st.unused EXCEPT ![symbol] = @ \ {rule}],
             st.drawn)

Recorded(st, symbol, rule) ==
    GenState(st.grammar, st.shared, st.variables, st.unused,
             [st.drawn EXCEPT ![symbol] = @ \cup {rule}])

\* produce(symbol, unique=True): lines 49-61
ProduceUnique(symbol, st) ==
    IF symbol \notin DOMAIN st.unused
    THEN {ProduceResult("MayhapError", symbol, NoRule, st)}
    ELSE IF st.unused[symbol] = {} /\ symbol \notin DOMAIN st.grammar
    THEN {ProduceResult("KeyError", symbol, NoRule, st)}
    ELSE
    LET st1 == Refilled(st, symbol)
    IN  { IF c.err # ""
          THEN ProduceResult(c.err, symbol, NoRule, st1)
          ELSE ProduceResult("", symbol, c.rule,
                             Recorded(Removed(st1, symbol, c.rule),
                                      symbol, c.rule))
          : c \in choose_rule(st1.unused[symbol]) }

\* A mundane draw that chooses from the unused pool instead of the full set
ProduceMundane_FromPool(symbol, st) ==
    IF symbol \notin DOMAIN st.unused
    THEN {ProduceResult("KeyError", symbol, NoRule, st)}
    ELSE { IF c.err # ""
           THEN ProduceResult(c.err, symbol, NoRule, st)
           ELSE ProduceResult("", symbol, c.rule, Removed(st, symbol, c.rule))
           : c \in choose_rule(st.unused[symbol]) }

\* produce(symbol, unique=False): lines 63-69
ProduceMundane(symbol, st) ==
    IF symbol \notin DOMAIN st.grammar
    THEN {ProduceResult("KeyError", symbol, NoRule, st)}
    ELSE { IF c.err # ""
           THEN ProduceResult(c.err, symbol, NoRule, st)
           ELSE IF symbol \notin DOMAIN st.unused
           THEN ProduceResult("KeyError", symbol, NoRule, st)
           ELSE ProduceResult("", symbol, c.rule,
                              Removed(st, symbol, c.rule))
           : c \in choose_rule(st.grammar[symbol]) }

produce(symbol, unique, st) ==
    IF unique THEN ProduceUnique(symbol, st) ELSE ProduceMundane(symbol, st)

----------------------------------------------------------------------------
(* Token evaluation (src/mayhap/generator.py: evaluate_token,              *)
(* evaluate_tokens; the modifier dispatch is src/mayhap.py lines 830-848)  *)

\* The depth of nested evaluate_* calls at which Python raises
\* RecursionError (sys.getrecursionlimit(), scaled down).
RecursionLimit == 8

\* Printable ASCII, code points 32..126 (code 96, the grave accent, cannot
\* be written in a string of this language and is spelled out)
AsciiChars ==
    <<" ","!","\"","#","$","%","&","'","(",")","*","+",",","-",".","/",
      "0","1","2","3","4","5","6","7","8","9",":",";","<","=",">","?",
      "@","A","B","C","D","E","F","G","H","I","J","K","L","M","N","O",
      "P","Q","R","S","T","U","V","W","X","Y","Z","[","\\","]","^","_",
      "grave","a","b","c","d","e","f","g","h","i","j","k","l","m","n","o",
      "p","q","r","s","t","u","v","w","x","y","z","{","|","}","~">>

\* chr(code) and ord(character)
Chr(code) == AsciiChars[code - 31]
Ord(c) == IndexOf(c, AsciiChars) + 31

\* str(n) for an integer
RECURSIVE NatToStr(_)
NatToStr(n) ==
    IF n < 10 THEN <<DigitChars[n + 1]>>
    ELSE NatToStr(n \div 10) \o <<DigitChars[(n % 10) + 1]>>

IntToStr(n) == IF n < 0 THEN <<"-">> \o NatToStr(-n) ELSE NatToStr(n)

\* What a call returns: err = "" and the string, or the exception raised
\* (err its class, name the symbol, variable or modifier its message
\* names), with the generator state it leaves behind.
EvalResult(err, name, string, st) ==
    [err |-> err, name |-> name, string |-> string, st |-> st]

Returns(string, st) == EvalResult("", <<>>, string, st)
Raises(err, name, st) == EvalResult(err, name, <<>>, st)

ModResult(err, string) == [err |-> err, string |-> string]

\* One modifier applied to the evaluated string
apply_modifier(string, modifier) ==
    IF modifier = MOD_PLURAL THEN ModResult("", get_plural(string, None))
    ELSE IF modifier = MOD_ARTICLE THEN ModResult("", add_article(string))
    ELSE IF modifier = MOD_ORDINAL THEN ModResult("", get_ordinal(string))
    ELSE IF modifier = MOD_CAPITALIZE THEN ModResult("", Capitalize(string))
    ELSE IF modifier = MOD_LOWER THEN ModResult("", Lower(string))
    ELSE IF modifier = MOD_UPPER THEN ModResult("", Upper(string))
    ELSE IF modifier = MOD_TITLE THEN ModResult("", Title(string))
    ELSE IF modifier = MOD_MUNDANE THEN ModResult("", string)
    ELSE ModResult("MayhapError", string)

\* for modifier in token.modifiers: string = apply_modifier(string, modifier)
RECURSIVE ApplyModifiers(_, _, _, _)
ApplyModifiers(string, modifiers, i, st) ==
    IF i > Len(modifiers) THEN Returns(string, st)
    ELSE LET m == apply_modifier(string, modifiers[i])
         IN  IF m.err # "" THEN Raises(m.err, modifiers[i], st)
             ELSE ApplyModifiers(m.string, modifiers, i + 1, st)

\* A Python str iterated as a token sequence: one text segment per character
StrTokens(s) == [i \in 1..Len(s) |-> Str(<<s[i]>>)]

\* self.variables.setdefault(variable, value): the first binding is kept
SetVariable_KeepFirst(st, variable, value) ==
    GenState(st.grammar, st.shared,
             [v \in DOMAIN st.variables \cup {variable} |->
                 IF v \in DOMAIN st.variables THEN st.variables[v] ELSE value],
             st.unused, st.drawn)

\* self.variables[variable] = value
SetVariable(st, variable, value) ==
    GenState(st.grammar, st.shared,
             [v \in DOMAIN st.variables \cup {variable} |->
                 IF v = variable THEN value ELSE st.variables[v]],
             st.unused, st.drawn)

\* `if not value` in place of `if value is None`: the empty string is
\* taken for a missing variable
ReadVariable_Falsy(variable, st) ==
    IF variable \notin DOMAIN st.variables \/ st.variables[variable] = <<>>
    THEN Raises("MayhapError", variable, st)
    ELSE Returns(st.variables[variable], st)

\* value = self.variables.get(variable); raise if value is None
ReadVariable(variable, st) ==
    IF variable \notin DOMAIN st.variables
    THEN Raises("MayhapError", variable, st)
    ELSE Returns(st.variables[variable], st)

RECURSIVE evaluate_token(_, _, _)
RECURSIVE evaluate_tokens(_, _, _)
RECURSIVE EvaluateFrom(_, _, _, _, _)

\* The string a modifiable token evaluates to, before its modifiers
TokenString(token, st, depth) ==
    IF token.kind = "literal" THEN {Returns(token.string, st)}
    ELSE IF token.kind = "pattern"
    THEN evaluate_tokens(token.tokens, st, depth + 1)
    ELSE IF token.kind = "range"
    THEN IF token.start >= token.stop THEN {Raises("IndexError", <<>>, st)}
         ELSE {Returns(IF token.alpha THEN <<Chr(choice)>> ELSE IntToStr(choice),
                       st) : choice \in token.start .. (token.stop - 1)}
    ELSE IF token.kind = "symbol"
    THEN UNION {
            IF n.err # "" THEN {n}
            ELSE UNION {
                IF p.err # "" THEN {Raises(p.err, p.name, p.st)}
                ELSE evaluate_tokens(p.rule.tokens, p.st, depth + 1)
                : p \in produce(n.string, MOD_MUNDANE \notin Range(token.modifiers),
                                n.st) }
            : n \in evaluate_tokens(StrTokens(token.symbol), st, depth + 1) }
    ELSE \* token.kind = "variable"
         {ReadVariable(token.variable, st)}

evaluate_token(token, st, depth) ==
    IF depth > RecursionLimit THEN {Raises("RecursionError", <<>>, st)}
    ELSE IF token.kind = "str" THEN {Returns(token.string, st)}
    ELSE IF token.kind = "choice"
    THEN UNION {
            IF c.err # "" THEN {Raises(c.err, <<>>, st)}
            ELSE evaluate_tokens(c.rule.tokens, st, depth + 1)
            : c \in choose_rule(Range(token.rules)) }
    ELSE IF token.kind = "assignment"
    THEN { IF v.err # "" THEN v
           ELSE Returns(IF token.echo THEN v.string ELSE <<>>,
                        SetVariable(v.st, token.variable, v.string))
           : v \in evaluate_tokens(token.value, st, depth + 1) }
    ELSE { IF s.err # "" THEN s
           ELSE ApplyModifiers(s.string, token.modifiers, 1, s.st)
           : s \in TokenString(token, st, depth) }

\* The loop of evaluate_tokens from the i-th token on, string being the
\* text accumulated so far; then the dynamic markers are resolved.
EvaluateFrom(tokens, i, string, st, depth) ==
    IF i > Len(tokens)
    THEN LET r == resolve_plurals(resolve_indefinite_articles(string))
         IN  IF r.err # "" THEN {Raises(r.err, <<>>, st)}
             ELSE {Returns(r.string, st)}
    ELSE IF tokens[i].kind = "str"
    THEN EvaluateFrom(tokens, i + 1, string \o tokens[i].string, st, depth)
    ELSE UNION {
            IF t.err # "" THEN {t}
            ELSE EvaluateFrom(tokens, i + 1, string \o t.string, t.st, depth)
            : t \in evaluate_token(tokens[i], st, depth + 1) }

evaluate_tokens(tokens, st, depth) ==
    IF depth > RecursionLimit THEN {Raises("RecursionError", <<>>, st)}
    ELSE EvaluateFrom(tokens, 1, <<>>, st, depth)

----------------------------------------------------------------------------
(* parse_rule (src/mayhap/parse.py).  The pyparsing expressions are read   *)
(* as a recursive-descent parser: `|` is first match, an expression that   *)
(* fails is a ParseException the enclosing alternative recovers from, and  *)
(* any other exception raised by a parse action ends the parse.            *)

WhiteChars == {" ", "\t", "\n"}

RECURSIVE SkipWhite(_, _)
SkipWhite(s, i) ==
    IF i < Len(s) /\ At(s, i) \in WhiteChars THEN SkipWhite(s, i + 1) ELSE i

\* What an expression yields at a position
Parsed(exc, toks, pos) == [exc |-> exc, toks |-> toks, pos |-> pos]
NoMatch(pos) == Parsed("ParseException", <<>>, pos)

\* v named once for the expression K
Let(v, K(_)) == K(v)

\* a + b: what follows (K) is parsed after r has matched
Then(r, K(_)) == IF r.exc # "" THEN r ELSE K(r)

\* a | b: the first alternative that matches or raises
FirstMatch(a, b) == IF a.exc # "ParseException" THEN a ELSE b

\* Literal(c), skipping leading whitespace when skip is set
Lit(s, i, c, skip) ==
    Let(IF skip THEN SkipWhite(s, i) ELSE i, LAMBDA j :
        IF j < Len(s) /\ At(s, j) = c THEN Parsed("", <<>>, j + 1)
        ELSE NoMatch(i))

\* The longest run from position i of characters of the set chars
RECURSIVE RunEnd(_, _, _)
RunEnd(s, i, chars) ==
    IF i < Len(s) /\ At(s, i) \in chars THEN RunEnd(s, i + 1, chars) ELSE i

\* word_excluding(exclude_chars): printables and the space, but these
TextChars(excluded) == Range(AsciiChars) \ excluded

\* Combine(OneOrMore(word_excluding(excluded))): a text segment
TextRun(s, i, excluded) ==
    Let(RunEnd(s, i, TextChars(excluded)), LAMBDA j :
        IF j > i THEN Parsed("", <<Str(SubSeq(s, i + 1, j))>>, j)
        ELSE NoMatch(i))

IdentStartChars == Range(LowerAlpha) \cup Range(UpperAlpha) \cup {"_"}
IdentBodyChars == IdentStartChars \cup Range(DigitChars)

\* pyparsing_common.identifier: the name is toks[1], a string
Identifier(s, i) ==
    Let(SkipWhite(s, i), LAMBDA j :
        IF j < Len(s) /\ At(s, j) \in IdentStartChars
        THEN Let(RunEnd(s, j, IdentBodyChars), LAMBDA k :
                 Parsed("", <<SubSeq(s, j + 1, k)>>, k))
        ELSE NoMatch(i))

\* pyparsing_common.signed_integer: [+-]?\d+, as an integer
SignedInteger(s, i) ==
    Let(SkipWhite(s, i), LAMBDA j :
    Let(IF j < Len(s) /\ At(s, j) \in {"+", "-"} THEN j + 1 ELSE j, LAMBDA d :
    Let(RunEnd(s, d, Range(DigitChars)), LAMBDA k :
        IF k > d
        THEN Parsed("", <<(IF d > j /\ At(s, j) = "-" THEN -1 ELSE 1)
                          * DigitsValue(SubSeq(s, d + 1, k))>>, k)
        ELSE NoMatch(i))))

\* QuotedString("'", esc_char='\\'): the text up to the closing quote, a
\* backslash taking the next character as it is
RECURSIVE QuotedFrom(_, _, _)
QuotedFrom(s, i, acc) ==
    IF i >= Len(s) THEN NoMatch(i)
    ELSE IF At(s, i) = "'" THEN Parsed("", <<acc>>, i + 1)
    ELSE IF At(s, i) = "\\" /\ i + 1 < Len(s)
    THEN QuotedFrom(s, i + 2, Append(acc, At(s, i + 1)))
    ELSE QuotedFrom(s, i + 1, Append(acc, At(s, i)))

\* E_LITERAL with parse_literal_action
ParseLiteral(s, i) ==
    Then(Lit(s, i, "'", TRUE), LAMBDA open :
    Then(QuotedFrom(s, open.pos, <<>>), LAMBDA q :
        Parsed("", <<LiteralToken(q.toks[1], <<>>)>>, q.pos)))

Min(a, b) == IF a < b THEN a ELSE b
Max(a, b) == IF a < b THEN b ELSE a

\* A parse_range_num_action that keeps the bounds in the order written
ParseRangeNum_AsWritten(s, i) ==
    Then(SignedInteger(s, i), LAMBDA b1 :
    Then(Lit(s, b1.pos, "-", TRUE), LAMBDA dash :
    Then(SignedInteger(s, dash.pos), LAMBDA b2 :
        Parsed("", <<RangeToken(b1.toks[1], b2.toks[1] + 1, FALSE, <<>>)>>,
               b2.pos))))

\* E_RANGE_NUM with parse_range_num_action
ParseRangeNum(s, i) ==
    Then(SignedInteger(s, i), LAMBDA b1 :
    Then(Lit(s, b1.pos, "-", TRUE), LAMBDA dash :
    Then(SignedInteger(s, dash.pos), LAMBDA b2 :
        Parsed("", <<RangeToken(Min(b1.toks[1], b2.toks[1]),
                               Max(b1.toks[1], b2.toks[1]) + 1, FALSE, <<>>)>>,
               b2.pos))))

\* Word(alphas, exact=1)
Letter(s, i) ==
    Let(SkipWhite(s, i), LAMBDA j :
        IF j < Len(s) /\ IsAlpha(At(s, j)) THEN Parsed("", <<At(s, j)>>, j + 1)
        ELSE NoMatch(i))

\* A parse_range_alpha_action without the test on the case of the bounds
ParseRangeAlpha_AnyCase(s, i) ==
    Then(Letter(s, i), LAMBDA b1 :
    Then(Lit(s, b1.pos, "-", TRUE), LAMBDA dash :
    Then(Letter(s, dash.pos), LAMBDA b2 :
        Parsed("", <<RangeToken(Min(Ord(b1.toks[1]), Ord(b2.toks[1])),
                                Max(Ord(b1.toks[1]), Ord(b2.toks[1])) + 1,
                                TRUE, <<>>)>>,
               b2.pos))))

\* E_RANGE_ALPHA with parse_range_alpha_action
ParseRangeAlpha(s, i) ==
    Then(Letter(s, i), LAMBDA b1 :
    Then(Lit(s, b1.pos, "-", TRUE), LAMBDA dash :
    Then(Letter(s, dash.pos), LAMBDA b2 :
        IF IsUpper(b1.toks[1]) # IsUpper(b2.toks[1])
        THEN Parsed("MayhapError", <<>>, i)
        ELSE Parsed("", <<RangeToken(Min(Ord(b1.toks[1]), Ord(b2.toks[1])),
                                    Max(Ord(b1.toks[1]), Ord(b2.toks[1])) + 1,
                                    TRUE, <<>>)>>,
                    b2.pos))))

\* E_SYMBOL with parse_symbol_action
ParseSymbol(s, i) ==
    Then(Identifier(s, i), LAMBDA n :
        Parsed("", <<SymbolToken(n.toks[1], <<>>)>>, n.pos))

\* E_VARIABLE_ACCESS with parse_variable_action
ParseVariableAccess(s, i) ==
    Then(Lit(s, i, "$", TRUE), LAMBDA d :
    Then(Identifier(s, d.pos), LAMBDA n :
        Parsed("", <<VariableToken(n.toks[1], <<>>)>>, n.pos)))

\* ZeroOrMore(E_MODIFIER): the names after each '.'
RECURSIVE ParseModifiers(_, _, _)
ParseModifiers(s, i, acc) ==
    Let(Then(Lit(s, i, ".", TRUE), LAMBDA d : Identifier(s, d.pos)), LAMBDA n :
        IF n.exc # "" THEN Parsed("", acc, i)
        ELSE ParseModifiers(s, n.pos, Append(acc, n.toks[1])))

\* The '.' and digits that may follow the whole part of a number
FractionEnd(s, i) ==
    IF i < Len(s) /\ At(s, i) = "." THEN RunEnd(s, i + 1, {"0"}) ELSE i

\* An E_WEIGHT whose WeightToken takes a weight of either sign
ParseWeight_AnySign(s, i) ==
    Then(Lit(s, i, "^", TRUE), LAMBDA hat :
    Then(SignedInteger(s, hat.pos), LAMBDA n :
        Parsed("", n.toks, FractionEnd(s, n.pos))))

\* E_WEIGHT with parse_weight_action: '^' and a number (fnumber); rules
\* carry whole weights here, so the number is whole, with at most zeros
\* after a '.'.  WeightToken refuses a negative weight.
ParseWeight(s, i) ==
    Then(Lit(s, i, "^", TRUE), LAMBDA hat :
    Then(SignedInteger(s, hat.pos), LAMBDA n :
        IF n.toks[1] < 0 THEN Parsed("MayhapError", <<>>, i)
        ELSE Parsed("", n.toks, FractionEnd(s, n.pos))))

\* str.rstrip()
RECURSIVE RStrip(_)
RStrip(str) ==
    IF str # <<>> /\ str[Len(str)] \in WhiteChars
    THEN RStrip(SubSeq(str, 1, Len(str) - 1))
    ELSE str

\* parse_rule_action: toks are the tokens, then the weight when hasWeight
parse_rule_action(toks, hasWeight, weight) ==
    IF ~hasWeight THEN [exc |-> "", rule |-> Rule(toks, DEFAULT_WEIGHT)]
    ELSE IF toks = <<>> THEN [exc |-> "", rule |-> Rule(<<>>, weight)]
    ELSE IF toks[Len(toks)].kind # "str"
    THEN [exc |-> "AttributeError", rule |-> NoRule]
    ELSE [exc |-> "",
          rule |-> Rule(Append(SubSeq(toks, 1, Len(toks) - 1),
                               Str(RStrip(toks[Len(toks)].string))),
                        weight)]

RECURSIVE ParseTokens(_, _, _, _)
RECURSIVE ParseBlock(_, _)
RECURSIVE ParseSpecial(_, _)
RECURSIVE ParseAssignment(_, _)
RECURSIVE ParseAlternatives(_, _, _)
RECURSIVE ParseChoices(_, _)
RECURSIVE ParseModded(_, _)
RECURSIVE ParsePattern(_, _)
RECURSIVE ParseRuleAt(_, _)

\* ZeroOrMore(text | E_BLOCK) without skipping whitespace; `excluded` are
\* the characters a text run stops at
ParseTokens(s, i, excluded, acc) ==
    Let(FirstMatch(TextRun(s, i, excluded), ParseBlock(s, i)), LAMBDA t :
        IF t.exc = "" THEN ParseTokens(s, t.pos, excluded, acc \o t.toks)
        ELSE IF t.exc = "ParseException" THEN Parsed("", acc, i)
        ELSE t)

\* E_BLOCK = '[' E_SPECIAL ']'
ParseBlock(s, i) ==
    Then(Lit(s, i, "[", FALSE), LAMBDA open :
    Then(ParseSpecial(s, open.pos), LAMBDA sp :
    Then(Lit(s, sp.pos, "]", FALSE), LAMBDA close :
        Parsed("", sp.toks, close.pos))))

\* E_SPECIAL = E_ASSIGNMENT | E_CHOICES | E_MODDED
ParseSpecial(s, i) ==
    FirstMatch(ParseAssignment(s, i),
               FirstMatch(ParseChoices(s, i), ParseModded(s, i)))

\* E_ASSIGNMENT = E_ASSIGNMENT_ECHO | E_ASSIGNMENT_SILENT with their parse
\* actions: the name, '=' (echo) or '~' (silent), and the value
ParseAssignment(s, i) ==
    Then(Identifier(s, i), LAMBDA n :
    Then(FirstMatch(Lit(s, n.pos, "=", TRUE), Lit(s, n.pos, "~", TRUE)),
         LAMBDA op :
    Then(ParseSpecial(s, op.pos), LAMBDA v :
        Parsed("", <<AssignmentToken(n.toks[1], v.toks,
                                     At(s, op.pos - 1) = "=")>>,
               v.pos))))

\* Optional(E_RULE) + ZeroOrMore('|' + Optional(E_RULE))
ParseAlternatives(s, i, acc) ==
    Then(ParseRuleAt(s, i), LAMBDA r :
    Let(Lit(s, r.pos, "|", TRUE), LAMBDA bar :
        IF bar.exc = "" THEN ParseAlternatives(s, bar.pos, acc \o r.toks)
        ELSE Parsed("", acc \o r.toks, r.pos)))

\* E_CHOICES with parse_choices_action; it needs one '|' at least
ParseChoices(s, i) ==
    Then(ParseAlternatives(s, i, <<>>), LAMBDA alts :
        IF Len(alts.toks) < 2 THEN NoMatch(i)
        ELSE Parsed("", <<ChoiceToken(alts.toks)>>, alts.pos))

\* E_PATTERN with parse_pattern_action
ParsePattern(s, i) ==
    Then(Lit(s, i, "\"", TRUE), LAMBDA open :
    Then(ParseTokens(s, open.pos, {"\"", "[", "]"}, <<>>), LAMBDA inner :
        IF inner.toks = <<>> THEN NoMatch(i)
        ELSE Then(Lit(s, inner.pos, "\"", TRUE), LAMBDA close :
                 Parsed("", <<PatternToken(inner.toks, <<>>)>>, close.pos))))

\* E_MODDED with parse_modifiers_action
ParseModded(s, i) ==
    Then(FirstMatch(ParseLiteral(s, i),
         FirstMatch(ParsePattern(s, i),
         FirstMatch(ParseRangeNum(s, i),
         FirstMatch(ParseRangeAlpha(s, i),
         FirstMatch(ParseSymbol(s, i), ParseVariableAccess(s, i)))))),
         LAMBDA prim :
    Then(ParseModifiers(s, prim.pos, <<>>), LAMBDA mods :
        Parsed("", <<[prim.toks[1] EXCEPT !.modifiers = mods.toks]>>,
               mods.pos)))

\* E_RULE = ZeroOrMore(E_TOKEN) + Optional(E_WEIGHT) with parse_rule_action
ParseRuleAt(s, i) ==
    Then(ParseTokens(s, i, {"|", "^", "[", "]"}, <<>>), LAMBDA ts :
    Let(ParseWeight(s, ts.pos), LAMBDA w :
        IF w.exc \notin {"", "ParseException"} THEN w
        ELSE Let(parse_rule_action(ts.toks, w.exc = "",
                                   IF w.exc = "" THEN w.toks[1] ELSE 0),
                 LAMBDA made :
                 IF made.exc # "" THEN Parsed(made.exc, <<>>, i)
                 ELSE Parsed("", <<made.rule>>,
                             IF w.exc = "" THEN w.pos ELSE ts.pos))))

\* All characters special to Mayhap that can be escaped with a backslash
SPECIAL_CHARS == {"\"", "^", "[", "]", "|"}

\* RE_ESCAPE.sub(escape_repl, string): a backslash and the character after it
RECURSIVE EscapeFrom(_, _)
EscapeFrom(s, i) ==
    IF i >= Len(s) THEN <<>>
    ELSE IF At(s, i) = "\\" /\ i + 1 < Len(s) /\ At(s, i + 1) # "\n"
    THEN LET c == At(s, i + 1)
             repl == IF c = "'" THEN <<"\\", "'">>
                     ELSE IF c \in SPECIAL_CHARS THEN <<"[", "'", c, "'", "]">>
                     ELSE IF c = "n" THEN <<"[", "'", "\n", "'", "]">>
                     ELSE IF c = "t" THEN <<"[", "'", "\t", "'", "]">>
                     ELSE IF c = "\\" THEN <<"[", "'", "\\", "'", "]">>
                     ELSE <<"[", "'", "\\", c, "'", "]">>
         IN  repl \o EscapeFrom(s, i + 2)
    ELSE <<At(s, i)>> \o EscapeFrom(s, i + 1)

ParseOutcome(err, rule) == [err |-> err, rule |-> rule]

\* parse_rule(string): StringStart + E_RULE + StringEnd; a ParseException
\* becomes MayhapError
parse_rule(string) ==
    Let(EscapeFrom(string, 0), LAMBDA s :
    Let(ParseRuleAt(s, 0), LAMBDA r :
        IF r.exc = "ParseException" THEN ParseOutcome("MayhapError", NoRule)
        ELSE IF r.exc # "" THEN ParseOutcome(r.exc, NoRule)
        ELSE IF SkipWhite(s, r.pos) < Len(s)
        THEN ParseOutcome("MayhapError", NoRule)
        ELSE ParseOutcome("", r.toks[1])))

----------------------------------------------------------------------------
(* Grammar sources (src/mayhap/parse.py): parse_grammar and import_grammar. *)
(* A source is its lines, without the line ends, and its kind: a "list" of  *)
(* str, or a "file" object, which is iterated but has no len().  No symbol  *)
(* is the empty string, which stands for current_symbol = None.             *)

\* str.strip()
Strip(str) ==
    Let(RStrip(str), LAMBDA r : SubSeq(r, SkipWhite(r, 0) + 1, Len(r)))

\* RE_COMMENT = (^|[^\\])(#.*): where group 2 of the first match starts, or
\* Len(s) when there is no match
RECURSIVE CommentStart(_, _)
CommentStart(s, i) ==
    IF i >= Len(s) THEN Len(s)
    ELSE IF At(s, i) = "#" /\ (i = 0 \/ At(s, i - 1) # "\\") THEN i
    ELSE CommentStart(s, i + 1)

\* len(E_SYMBOL.search_string(s)): the identifiers found scanning s
RECURSIVE SymbolCount(_, _)
SymbolCount(s, i) ==
    IF SkipWhite(s, i) >= Len(s) THEN 0
    ELSE Let(Identifier(s, i), LAMBDA n :
             IF n.exc = "" THEN 1 + SymbolCount(s, n.pos)
             ELSE SymbolCount(s, SkipWhite(s, i) + 1))

\* What parse_grammar yields: exc = "" and the grammar, or the exception
\* raised, with the number and line of a MayhapGrammarError
Loaded(exc, g, number, line) ==
    [exc |-> exc, grammar |-> g, number |-> number, line |-> line]

\* The grammar files on disk, by name
Files ==
    [name \in {<<"f", ".", "m", "h">>, <<"e", ".", "m", "h">>} |->
        IF name = <<"f", ".", "m", "h">>
        THEN << <<"a">>, <<"\t", "z">>, <<"c">>, <<"\t", "z">> >>
        ELSE << <<"a">>, <<"\t", "z">>, <<"c">> >>]

\* grammar |= imported
Merged(g, imported) ==
    [symbol \in DOMAIN g \cup DOMAIN imported |->
        IF symbol \in DOMAIN imported THEN imported[symbol] ELSE g[symbol]]

RECURSIVE import_grammar(_)
RECURSIVE parse_grammar(_, _)
RECURSIVE ParseLinesFrom(_, _, _, _, _)

\* import_grammar(import_file_name): '.mh' is appended to a name that is no
\* file and has no such ending; OSError and MayhapError become MayhapError
import_grammar(import_file_name) ==
    Let(IF /\ import_file_name \notin DOMAIN Files
           /\ PySlice(import_file_name, -3, Len(import_file_name)) # <<".", "m", "h">>
        THEN import_file_name \o <<".", "m", "h">>
        ELSE import_file_name, LAMBDA name :
        IF name \notin DOMAIN Files THEN Loaded("MayhapError", <<>>, 0, <<>>)
        ELSE Let(parse_grammar(Files[name], "file"), LAMBDA g :
                 IF g.exc \in {"MayhapError", "MayhapGrammarError"}
                 THEN Loaded("MayhapError", <<>>, 0, <<>>)
                 ELSE g))

\* The loop of parse_grammar from line i (counted from 0) on, and the test
\* made after the loop
ParseLinesFrom(lines, kind, i, current_symbol, g) ==
    IF i >= Len(lines)
    THEN IF current_symbol # <<>> /\ g[current_symbol] = {}
         THEN IF kind = "list"
              THEN Loaded("MayhapGrammarError", <<>>, Len(lines), lines[Len(lines)])
              ELSE Loaded("TypeError", <<>>, 0, <<>>)
         ELSE Loaded("", g, 0, <<>>)
    ELSE
    Let(lines[i + 1], LAMBDA line :
    Let(Strip(line), LAMBDA whole :
    Let(Strip(SubSeq(whole, 1, CommentStart(whole, 0))), LAMBDA stripped :
        IF stripped = <<>>
        THEN ParseLinesFrom(lines, kind, i + 1, current_symbol, g)
        ELSE IF At(line, 0) = "@" /\ Len(line) > 1
        THEN Let(import_grammar(SubSeq(line, 2, Len(line))), LAMBDA imported :
                 IF imported.exc = "MayhapError"
                 THEN Loaded("MayhapGrammarError", <<>>, i + 1, line)
                 ELSE IF imported.exc # "" THEN imported
                 ELSE ParseLinesFrom(lines, kind, i + 1, current_symbol,
                                     Merged(g, imported.grammar)))
        ELSE IF At(line, 0) \in WhiteChars
        THEN IF current_symbol = <<>>
             THEN Loaded("MayhapGrammarError", <<>>, i + 1, line)
             ELSE Let(parse_rule(stripped), LAMBDA rule :
                      IF rule.err = "MayhapError"
                      THEN Loaded("MayhapGrammarError", <<>>, i + 1, line)
                      ELSE IF rule.err # "" THEN Loaded(rule.err, <<>>, 0, <<>>)
                      ELSE ParseLinesFrom(lines, kind, i + 1, current_symbol,
                               [g EXCEPT ![current_symbol] = @ \cup {rule.rule}]))
        ELSE IF current_symbol # <<>> /\ g[current_symbol] = {}
        THEN Loaded("MayhapGrammarError", <<>>, i + 1, line)
        ELSE IF SymbolCount(stripped, 0) # 1
        THEN Loaded("MayhapGrammarError", <<>>, i + 1, line)
        ELSE ParseLinesFrom(lines, kind, i + 1, stripped,
                            Merged(g, [symbol \in {stripped} |-> {}])))))

\* parse_grammar(lines)
parse_grammar(lines, kind) == ParseLinesFrom(lines, kind, 0, <<>>, <<>>)

----------------------------------------------------------------------------
(* MayhapGenerator.evaluate_input (src/mayhap/generator.py)                *)

\* An evaluate_input that begins every evaluation with an empty variable
\* table
evaluate_input_OwnScope(pattern, st) ==
    Let(GenState(st.grammar, st.shared, <<>>, st.unused, st.drawn), LAMBDA st0 :
        IF pattern \in DOMAIN st0.grammar
        THEN UNION {IF p.err # "" THEN {Raises(p.err, p.name, p.st)}
                    ELSE evaluate_tokens(p.rule.tokens, p.st, 0)
                    : p \in produce(pattern, TRUE, st0)}
        ELSE Let(parse_rule(pattern), LAMBDA parsed :
                 IF parsed.err # "" THEN {Raises(parsed.err, <<>>, st0)}
                 ELSE evaluate_tokens(parsed.rule.tokens, st0, 0)))

\* An evaluate_input without the symbol lookup: every input is parsed as a
\* rule
evaluate_input_AlwaysParsed(pattern, st) ==
    Let(parse_rule(pattern), LAMBDA parsed :
        IF parsed.err # "" THEN {Raises(parsed.err, <<>>, st)}
        ELSE evaluate_tokens(parsed.rule.tokens, st, 0))

\* evaluate_input(pattern): the name of a symbol is expanded by a unique
\* draw; anything else is parsed as a rule; the rule's tokens are evaluated
evaluate_input(pattern, st) ==
    IF pattern \in DOMAIN st.grammar
    THEN UNION {IF p.err # "" THEN {Raises(p.err, p.name, p.st)}
                ELSE evaluate_tokens(p.rule.tokens, p.st, 0)
                : p \in produce(pattern, TRUE, st)}
    ELSE LET parsed == parse_rule(pattern)
         IN  IF parsed.err # "" THEN {Raises(parsed.err, <<>>, st)}
             ELSE evaluate_tokens(parsed.rule.tokens, st, 0)

\* A handle_input that restores the generator state when the evaluation
\* fails
handle_input_RolledBack(pattern, st) ==
    { [err |-> IF r.err = "MayhapError" THEN "" ELSE r.err,
       returned |-> IF r.err = "" THEN "True"
                    ELSE IF r.err = "MayhapError" THEN "False" ELSE "none",
       string |-> IF r.err = "" THEN r.string
                  ELSE IF r.err = "MayhapError" THEN r.name ELSE <<>>,
       st |-> IF r.err = "" THEN r.st ELSE st]
      : r \in evaluate_input(pattern, st) }

\* handle_input(pattern): print the evaluation and return True; on
\* MayhapError print the error and return False.  It returns "True" or
\* "False" after printing `string`, or an exception err leaves it
\* (returned = "none").
handle_input(pattern, st) ==
    { [err |-> IF r.err = "MayhapError" THEN "" ELSE r.err,
       returned |-> IF r.err = "" THEN "True"
                    ELSE IF r.err = "MayhapError" THEN "False" ELSE "none",
       string |-> IF r.err = "" THEN r.string
                  ELSE IF r.err = "MayhapError" THEN r.name ELSE <<>>,
       st |-> r.st]
      : r \in evaluate_input(pattern, st) }

----------------------------------------------------------------------------
(* The grammars the generator is constructed with, and the arguments of    *)
(* the calls made on it.                                                   *)

T(s) == Str(s)
NoMods == <<>>

\* Three rules of positive weight, and a symbol with a zero-weight rule
\* beside a positive one (the grammar of test_weight).
Grammar1 ==
    [s \in {<<"a">>, <<"w">>} |->
        IF s = <<"a">>
        THEN {Rule(<<T(<<"x">>)>>, 1), Rule(<<T(<<"y">>)>>, 2),
              Rule(<<T(<<"z">>)>>, 1)}
        ELSE {Rule(<<T(<<"p">>)>>, 1), Rule(<<T(<<"q">>)>>, 0)}]

\* A symbol whose rules all have weight 0; rules that assign and read a
\* variable; two rules with the same tokens and different weights.
Grammar2 ==
    [s \in {<<"o">>, <<"g">>, <<"d">>} |->
        IF s = <<"o">>
        THEN {Rule(<<T(<<"o">>)>>, 0)}
        ELSE IF s = <<"g">>
        THEN {Rule(<<AssignmentToken(<<"v">>, <<LiteralToken(<<"x">>, NoMods)>>,
                                     TRUE),
                     VariableToken(<<"v">>, NoMods)>>, 1),
              Rule(<<VariableToken(<<"v">>, <<MOD_UPPER>>)>>, 1)}
        ELSE {Rule(<<T(<<"k">>)>>, 1), Rule(<<T(<<"k">>)>>, 2)}]

Grammars == {Grammar1, Grammar2}

\* Symbol names passed to produce: those of the grammars and one that no
\* grammar declares.
Undeclared == <<"u">>
SymbolNames == DOMAIN Grammar1 \cup DOMAIN Grammar2 \cup {Undeclared}

\* Token sequences passed to evaluate_tokens
TokenInputs ==
    { <<VariableToken(<<"v">>, NoMods)>>,
      <<AssignmentToken(<<"v">>, <<LiteralToken(<<"x">>, NoMods)>>, TRUE),
        VariableToken(<<"v">>, NoMods)>>,
      <<VariableToken(<<"v">>, NoMods),
        AssignmentToken(<<"v">>, <<LiteralToken(<<"y">>, NoMods)>>, FALSE),
        VariableToken(<<"v">>, NoMods)>>,
      <<AssignmentToken(<<"v">>, <<LiteralToken(<<>>, NoMods)>>, FALSE)>>,
      <<AssignmentToken(<<"v">>, <<LiteralToken(<<"y">>, NoMods)>>, TRUE),
        SymbolToken(<<"a">>, NoMods),
        VariableToken(<<"u">>, NoMods)>>,
      <<SymbolToken(<<"a">>, NoMods), SymbolToken(<<"w">>, <<MOD_MUNDANE>>)>>,
      <<SymbolToken(Undeclared, NoMods)>>,
      <<SymbolToken(Undeclared, <<MOD_MUNDANE>>)>>,
      <<T(<<"1", " ">>), LiteralToken(<<"c">>, <<MOD_UPPER>>), T(<<"(", "s", ")">>)>>,
      <<ChoiceToken(<<Rule(<<T(<<"h">>)>>, 1), Rule(<<>>, 1)>>),
        RangeToken(1, 3, FALSE, <<MOD_ORDINAL>>)>> }

\* Strings passed to evaluate_input: symbol names, plain text, and
\* patterns with blocks
PatternInputs ==
    { <<"a">>, <<"w">>, <<"o">>, <<"g">>,
      <<"h", "i">>,
      <<"[", "a", "]">>,
      <<"[", "$", "v", "]">>,
      <<"[", "v", "=", "'", "x", "'", "]", "[", "$", "v", "]">>,
      <<"[", "u", ".", "m", "u", "n", "d", "a", "n", "e", "]">>,
      <<"[", "u", "]">>,
      <<"[", "a">> }

\* Inputs handed to handle_input: text, symbol names, and one input for
\* each way an evaluation fails
HandleInputs ==
    { <<"h", "i">>, <<"a">>, <<"o">>,
      <<"[", "a">>,
      <<"[", "u", "]">>,
      <<"[", "u", ".", "m", "u", "n", "d", "a", "n", "e", "]">>,
      <<"[", "$", "v", "]">>,
      <<"[", "'", "c", "'", ".", "z", "z", "]">> }

----------------------------------------------------------------------------
(* The generator as a state machine: one action per public method.         *)

VARIABLES
    grammar,    \* MayhapGenerator.grammar: symbol -> set of Rule
    unused,     \* MayhapGenerator.unused: symbol -> set of Rule not yet drawn
    variables,  \* MayhapGenerator.variables: name -> string
    shared,     \* symbols whose unused pool is the grammar's own set object
    drawn,      \* history: rules returned by unique draws since the pool's last fill
    last,       \* history: the last call and what it returned or raised
    streak      \* history: the results of the same call repeated since construction/reset

vars == <<grammar, unused, variables, shared, drawn, last, streak>>

\* How many repetitions of a call `streak` follows
MaxStreak == 4

Call(op, symbol, unique, tokens, pattern) ==
    [op |-> op, symbol |-> symbol, unique |-> unique, tokens |-> tokens,
     pattern |-> pattern]

\* What `last` records: the call, what it returned or raised, and for
\* reset the variables and pools it was called with.
Outcome(call, err, name, string, rule, pre) ==
    [call |-> call, err |-> err, name |-> name, string |-> string,
     rule |-> rule, pre |-> pre]

NoPre == [variables |-> <<>>, unused |-> <<>>]

Result(err, string, rule) == [err |-> err, string |-> string, rule |-> rule]

NoCall == Call("", <<>>, FALSE, <<>>, <<>>)
Fresh == [call |-> NoCall, results |-> <<>>, live |-> TRUE]
Broken == [call |-> NoCall, results |-> <<>>, live |-> FALSE]

Current == GenState(grammar, shared, variables, unused, drawn)

\* copy.deepcopy(grammar): equal rule sets in set objects of their own
deepcopy(g) == [value |-> g, shared |-> {}]

NoneDrawn(g) == [s \in DOMAIN g |-> {}]

\* MayhapGenerator.__init__
Init ==
    /\ grammar \in Grammars
    /\ variables = <<>>
    /\ unused = deepcopy(grammar).value
    /\ shared = deepcopy(grammar).shared
    /\ drawn = NoneDrawn(grammar)
    /\ last = Outcome(Call("init", <<>>, FALSE, <<>>, <<>>), "", <<>>, <<>>,
                      NoRule, NoPre)
    /\ streak = Fresh

\* A reset that restores the pools and forgets to clear the variables
Reset_KeepsVariables ==
    /\ unused' = deepcopy(grammar).value
    /\ shared' = deepcopy(grammar).shared
    /\ drawn' = NoneDrawn(grammar)
    /\ last' = Outcome(Call("reset", <<>>, FALSE, <<>>, <<>>), "", <<>>, <<>>,
                       NoRule, [variables |-> variables, unused |-> unused])
    /\ streak' = Fresh
    /\ UNCHANGED <<grammar, variables>>

\* MayhapGenerator.reset
Reset ==
    /\ variables' = <<>>
    /\ unused' = deepcopy(grammar).value
    /\ shared' = deepcopy(grammar).shared
    /\ drawn' = NoneDrawn(grammar)
    /\ last' = Outcome(Call("reset", <<>>, FALSE, <<>>, <<>>), "", <<>>, <<>>,
                       NoRule, [variables |-> variables, unused |-> unused])
    /\ streak' = Fresh
    /\ UNCHANGED grammar

\* The state a call leaves behind, and the histories of the call
Leaves(st, call, err, name, string, rule) ==
    /\ grammar' = st.grammar
    /\ shared' = st.shared
    /\ variables' = st.variables
    /\ unused' = st.unused
    /\ drawn' = st.drawn
    /\ last' = Outcome(call, err, name, string, rule, NoPre)
    /\ streak' = IF /\ streak.live
                    /\ streak.results = <<>> \/ streak.call = call
                    /\ Len(streak.results) < MaxStreak
                 THEN [call |-> call,
                       results |-> Append(streak.results,
                                          Result(err, string, rule)),
                       live |-> TRUE]
                 ELSE Broken

\* A direct call of produce(symbol, unique)
Produce(symbol, unique) ==
    \E p \in produce(symbol, unique, Current) :
        Leaves(p.st, Call("produce", symbol, unique, <<>>, <<>>),
               p.err, p.name, <<>>, p.rule)

\* A direct call of evaluate_tokens(tokens)
EvaluateTokens(tokens) ==
    \E r \in evaluate_tokens(tokens, Current, 0) :
        Leaves(r.st, Call("evaluate_tokens", <<>>, FALSE, tokens, <<>>),
               r.err, r.name, r.string, NoRule)

\* A call of evaluate_input(pattern)
EvaluateInput(pattern) ==
    \E r \in evaluate_input(pattern, Current) :
        Leaves(r.st, Call("evaluate_input", <<>>, FALSE, <<>>, pattern),
               r.err, r.name, r.string, NoRule)

\* A call of handle_input(pattern), as the shell and the batch loop make
\* it; `after` tells whether the call before it was a handle_input that
\* failed
HandleInput(pattern) ==
    \E h \in handle_input(pattern, Current) :
        /\ grammar' = h.st.grammar
        /\ shared' = h.st.shared
        /\ variables' = h.st.variables
        /\ unused' = h.st.unused
        /\ drawn' = h.st.drawn
        /\ last' = [call |-> Call("handle_input", <<>>, FALSE, <<>>, pattern),
                    err |-> h.err, name |-> <<>>, string |-> h.string,
                    rule |-> NoRule, pre |-> NoPre,
                    returned |-> h.returned,
                    after |-> IF last.call.op = "handle_input"
                              THEN last.returned ELSE "none"]
        /\ streak' = Broken

Next ==
    \/ Reset
    \/ \E symbol \in SymbolNames, unique \in BOOLEAN : Produce(symbol, unique)
    \/ \E tokens \in TokenInputs : EvaluateTokens(tokens)
    \/ \E pattern \in PatternInputs : EvaluateInput(pattern)
    \/ \E pattern \in HandleInputs : HandleInput(pattern)

Spec == Init /\ [][Next]_vars

----------------------------------------------------------------------------
(* Properties of the unused pools (claims C1 to C6)                        *)

\* The rules of a set that random.choices can return
Selectable(rules) == {q \in rules : q.weight > 0}

StreakRules == {streak.results[i].rule : i \in 1..Len(streak.results)}

\* streak follows unique draws of one symbol of the grammar, made on a
\* fresh generator
UniqueStreak ==
    /\ streak.live
    /\ streak.results # <<>>
    /\ streak.call.op = "produce"
    /\ streak.call.unique
    /\ streak.call.symbol \in DOMAIN grammar

\* C1: on a freshly constructed or reset generator, N consecutive unique
\* draws of a symbol with N rules all succeed and return each rule exactly
\* once, for every rule set with weights >= 0.
C1_UniqueDrawsPermutation ==
    UniqueStreak =>
        LET rules == grammar[streak.call.symbol]
            n == Len(streak.results)
        IN  n <= Cardinality(rules) =>
              /\ \A i \in 1..n : streak.results[i].err = ""
              /\ \A i, j \in 1..n :
                    i # j => streak.results[i].rule # streak.results[j].rule
              /\ StreakRules \subseteq rules
              /\ n = Cardinality(rules) => StreakRules = rules

\* C2: in every reachable state unused[s] is a subset of grammar[s], for
\* every symbol s.
C2_UnusedSubsetOfGrammar ==
    /\ DOMAIN unused = DOMAIN grammar
    /\ \A s \in DOMAIN unused : unused[s] \subseteq grammar[s]

\* C2 witness: after an evaluate_input call some pool is partly consumed
C2_Witness ==
    /\ last.call.op = "evaluate_input"
    /\ last.err = ""
    /\ \E s \in DOMAIN unused : unused[s] # {} /\ unused[s] # grammar[s]

\* What a successful unique draw of s does in the current state
UniqueDrawIsLazy(s) ==
    \A p \in ProduceUnique(s, Current) :
        p.err = "" =>
            IF unused[s] = {}
            THEN /\ p.st.unused[s] = grammar[s] \ {p.rule}
                 /\ p.st.drawn[s] = {p.rule}
            ELSE /\ p.st.unused[s] = unused[s] \ {p.rule}
                 /\ p.rule \notin drawn[s]
                 /\ p.st.drawn[s] = drawn[s] \cup {p.rule}

\* A step that is a direct unique draw returning a rule
UniqueDrawStep ==
    /\ last'.call.op = "produce"
    /\ last'.call.unique
    /\ last'.err = ""

\* C3: a unique draw refills the pool from the full rule set only when the
\* pool is empty at the moment of the draw, and between two refills of a
\* symbol's pool no rule is returned by two unique draws.
C3_LazyRefill ==
    /\ [](\A s \in DOMAIN grammar : UniqueDrawIsLazy(s))
    /\ [](\A s \in DOMAIN grammar : drawn[s] \cap unused[s] = {})
    /\ [][UniqueDrawStep =>
            LET s == last'.call.symbol
                r == last'.rule
            IN  IF unused[s] = {}
                THEN unused'[s] = grammar[s] \ {r} /\ drawn'[s] = {r}
                ELSE /\ r \in unused[s] /\ r \notin drawn[s]
                     /\ unused'[s] = unused[s] \ {r}
                     /\ drawn'[s] = drawn[s] \cup {r}]_vars

\* C3 witness: one more unique draw than the symbol has rules, all
\* successful: the last one refilled the pool
C3_Witness ==
    /\ UniqueStreak
    /\ Len(streak.results) = Cardinality(grammar[streak.call.symbol]) + 1
    /\ \A i \in 1..Len(streak.results) : streak.results[i].err = ""
    /\ drawn[streak.call.symbol] = {last.rule}

\* A step that is a direct mundane draw of a symbol of the grammar
MundaneDrawStep ==
    /\ last'.call.op = "produce"
    /\ ~last'.call.unique
    /\ last'.call.symbol \in DOMAIN grammar

\* The evaluation of [w.mundane] after [a]
MundaneTokenStep ==
    /\ last'.call.op = "evaluate_tokens"
    /\ last'.call.tokens =
          <<SymbolToken(<<"a">>, NoMods), SymbolToken(<<"w">>, <<MOD_MUNDANE>>)>>
    /\ last'.err = ""

\* C4: a mundane draw chooses among the rules of the full rule set whatever
\* the unused pool holds; afterwards unused[symbol] is its previous value
\* minus the chosen rule, and the pool is never refilled.
C4_MundaneDraw ==
    /\ [](\A s \in DOMAIN grammar :
            {p.rule : p \in {q \in ProduceMundane(s, Current) : q.err = ""}}
                = IF SumWeights(grammar[s]) > 0 THEN Selectable(grammar[s])
                  ELSE {})
    /\ [][MundaneDrawStep =>
            LET s == last'.call.symbol
            IN  IF last'.err = ""
                THEN /\ last'.rule \in grammar[s]
                     /\ unused' = [unused EXCEPT ![s] = @ \ {last'.rule}]
                ELSE unused' = unused]_vars
    /\ [][MundaneTokenStep =>
            /\ unused'[<<"w">>] \subseteq unused[<<"w">>]
            /\ Cardinality(unused[<<"w">>] \ unused'[<<"w">>]) <= 1
            /\ unused[<<"w">>] \ unused'[<<"w">>] \subseteq Selectable(grammar[<<"w">>])
            /\ last'.string \in {<<c, "p">> : c \in {"x", "y", "z"}}]_vars

\* C4 witness: a mundane draw returned a rule that unique draws had already
\* taken from the pool
C4_Witness ==
    /\ last.call.op = "produce"
    /\ ~last.call.unique
    /\ last.err = ""
    /\ last.rule \in drawn[last.call.symbol]
    /\ unused[last.call.symbol] # {}

\* C5: after reset(), called in any reachable state, the variable table is
\* empty and unused[symbol] = grammar[symbol] for every symbol.
C5_ResetRestores ==
    last.call.op = "reset" =>
        /\ variables = <<>>
        /\ DOMAIN unused = DOMAIN grammar
        /\ \A s \in DOMAIN grammar : unused[s] = grammar[s]

\* C5 witness: reset was called with a variable bound and a pool consumed
C5_Witness ==
    /\ last.call.op = "reset"
    /\ last.pre.variables # <<>>
    /\ \E s \in DOMAIN grammar : last.pre.unused[s] # grammar[s]

\* A step taken by a call on the generator
GeneratorCall ==
    last'.call.op \in {"produce", "evaluate_tokens", "evaluate_input", "reset"}

\* C6: no sequence of evaluate_input, evaluate_token, produce and reset
\* calls changes the grammar; removing a rule from an unused pool, also
\* from a refilled one, never removes it from the grammar.
C6_GrammarReadOnly ==
    /\ [](grammar \in Grammars)
    /\ [][GeneratorCall => grammar' = grammar]_vars

\* C6 witness: evaluate_input expanded a symbol once more than it has
\* rules, so a rule was removed from a refilled pool; the grammar has it
C6_Witness ==
    /\ streak.live
    /\ streak.call.op = "evaluate_input"
    /\ streak.call.pattern \in DOMAIN grammar
    /\ Len(streak.results)
          = Cardinality(grammar[streak.call.pattern]) + 1
    /\ \A i \in 1..Len(streak.results) : streak.results[i].err = ""
    /\ \E r \in grammar[streak.call.pattern] :
          r \notin unused[streak.call.pattern]

----------------------------------------------------------------------------
(* Properties of token evaluation (claims C7 to C10)                       *)

\* C7: evaluating a Symbol token whose name is not a symbol of the grammar
\* raises MayhapError naming the symbol, in unique mode and with the
\* 'mundane' modifier alike; no other exception is raised.
C7_UndeclaredSymbolRaises ==
    ( /\ last.call.op = "evaluate_tokens"
      /\ last.call.tokens \in {<<SymbolToken(Undeclared, NoMods)>>,
                               <<SymbolToken(Undeclared, <<MOD_MUNDANE>>)>>} )
    => /\ last.err = "MayhapError"
       /\ last.name = Undeclared

\* The text of a rule made of text segments only
RECURSIVE PlainText(_)
PlainText(tokens) ==
    IF tokens = <<>> THEN <<>>
    ELSE Head(tokens).string \o PlainText(Tail(tokens))

\* C8: when a symbol has a rule of positive weight and a rule of weight 0,
\* every evaluate_input call on it, the first and every later one without
\* reset, returns the expansion of a positive-weight rule and does not fail.
C8_ZeroWeightNeverSelected ==
    ( /\ last.call.op = "evaluate_input"
      /\ last.call.pattern \in DOMAIN grammar
      /\ \E r \in grammar[last.call.pattern] : r.weight > 0
      /\ \E r \in grammar[last.call.pattern] : r.weight = 0 )
    => /\ last.err = ""
       /\ \E r \in Selectable(grammar[last.call.pattern]) :
             last.string = PlainText(r.tokens)

ReadOfV == <<VariableToken(<<"v">>, NoMods)>>

\* A step that evaluates [$v] alone
ReadStep ==
    \/ last'.call.op = "evaluate_tokens" /\ last'.call.tokens = ReadOfV
    \/ last'.call.op = "evaluate_input"
          /\ last'.call.pattern = <<"[", "$", "v", "]">>

\* C9: reading a variable never assigned since construction or the last
\* reset raises MayhapError naming the variable; a variable assigned the
\* empty string is read as the empty string without error.
C9_VariableRead ==
    [][ReadStep =>
          IF <<"v">> \in DOMAIN variables
          THEN /\ last'.err = ""
               /\ last'.string = variables[<<"v">>]
          ELSE /\ last'.err = "MayhapError"
               /\ last'.name = <<"v">>]_vars

\* C9 witness: v holds the empty string and [$v] returned it
C9_Witness ==
    /\ last.call.op = "evaluate_tokens"
    /\ last.call.tokens = ReadOfV
    /\ <<"v">> \in DOMAIN variables
    /\ variables[<<"v">>] = <<>>
    /\ last.err = ""
    /\ last.string = <<>>

Quoted(s) == LiteralToken(s, NoMods)

EchoThenRead ==
    <<AssignmentToken(<<"v">>, <<Quoted(<<"x">>)>>, TRUE), VariableToken(<<"v">>, NoMods)>>

ReadReassignRead ==
    <<VariableToken(<<"v">>, NoMods),
      AssignmentToken(<<"v">>, <<Quoted(<<"y">>)>>, FALSE),
      VariableToken(<<"v">>, NoMods)>>

SilentEmpty == <<AssignmentToken(<<"v">>, <<Quoted(<<>>)>>, FALSE)>>

EchoThenReadStep ==
    \/ last'.call.op = "evaluate_tokens" /\ last'.call.tokens = EchoThenRead
    \/ last'.call.op = "evaluate_input"
          /\ last'.call.pattern
               = <<"[", "v", "=", "'", "x", "'", "]", "[", "$", "v", "]">>

ReadReassignReadStep ==
    /\ last'.call.op = "evaluate_tokens"
    /\ last'.call.tokens = ReadReassignRead
    /\ <<"v">> \in DOMAIN variables

SilentEmptyStep ==
    /\ last'.call.op = "evaluate_tokens"
    /\ last'.call.tokens = SilentEmpty

\* C10: an Assignment token binds the variable to the evaluated value,
\* replacing any earlier binding, and returns the value when echo is set
\* and the empty string when silent; later reads return the most recently
\* bound value: [v='x'][$v] yields "xx", and a read before and after a
\* silent reassignment yields the old then the new value.
C10_Assignment ==
    [][ /\ EchoThenReadStep =>
              /\ last'.err = ""
              /\ last'.string = <<"x", "x">>
              /\ <<"v">> \in DOMAIN variables'
              /\ variables'[<<"v">>] = <<"x">>
        /\ ReadReassignReadStep =>
              /\ last'.err = ""
              /\ last'.string = variables[<<"v">>] \o <<"y">>
              /\ variables'[<<"v">>] = <<"y">>
        /\ SilentEmptyStep =>
              /\ last'.err = ""
              /\ last'.string = <<>>
              /\ <<"v">> \in DOMAIN variables'
              /\ variables'[<<"v">>] = <<>>
      ]_vars

\* C10 witness: v held "x"; the read, the silent reassignment to "y" and
\* the second read returned "xy"
C10_Witness ==
    /\ last.call.op = "evaluate_tokens"
    /\ last.call.tokens = ReadReassignRead
    /\ last.err = ""
    /\ last.string = <<"x", "y">>
    /\ variables[<<"v">>] = <<"y">>

----------------------------------------------------------------------------
(* Evaluation of tokens that carry modifiers: the generator called with    *)
(* evaluate_tokens on one modifiable token at a time.                       *)

\* Token sequences passed to evaluate_tokens: one token of each modifiable
\* kind with each of the modifier lists, and an assignment that binds the
\* variable.  "a" and "w" are declared by the first grammar only, "u" by
\* none; "zz" is no modifier name.
ModifierInputs ==
    { <<[t EXCEPT !.modifiers = m]>> :
        t \in { LiteralToken(<<"a", "b">>, NoMods),
                PatternToken(<<Str(<<"a", "b">>)>>, NoMods),
                RangeToken(1, 3, FALSE, NoMods),
                SymbolToken(<<"a">>, NoMods),
                SymbolToken(<<"w">>, NoMods),
                SymbolToken(Undeclared, NoMods),
                VariableToken(<<"v">>, NoMods) },
        m \in { <<<<"z", "z">>>>, <<MOD_UPPER, <<"z", "z">>>>,
                <<<<"z", "z">>, MOD_UPPER>>, <<MOD_MUNDANE, <<"z", "z">>>>,
                <<MOD_MUNDANE>>, <<MOD_UPPER>>, <<MOD_MUNDANE, MOD_UPPER>> } }
    \cup { <<AssignmentToken(<<"v">>, <<LiteralToken(<<"x", "y">>, NoMods)>>, FALSE)>> }

ModifierNext ==
    \/ Reset
    \/ \E tokens \in ModifierInputs : EvaluateTokens(tokens)

ModifierSpec == Init /\ [][ModifierNext]_vars

----------------------------------------------------------------------------
(* parse_rule called on rule texts, and the rule it returned evaluated as  *)
(* evaluate_input does (rule = parse_rule(pattern), then                    *)
(* evaluate_tokens(rule.tokens)).                                           *)

MaxBound == 3

\* The bounds written in numeric ranges
RangeBounds == (-MaxBound .. MaxBound) \cup {12}

\* The text [a-b]
RangeText(a, b) == <<"[">> \o IntToStr(a) \o <<"-">> \o IntToStr(b) \o <<"]">>

\* The letters written in alphabetic ranges
RangeLetters == {"a", "c", "B", "D"}

\* Rule texts that end with a text run, with a bracketed block, or are empty
WeightTexts ==
    { <<"s", "t">>, <<"[", "u", "]">>, <<"x", "[", "u", "]">>,
      <<"[", "u", "]", "x">>, <<"[", "1", "-", "2", "]">>, <<>> }

\* Weights as written after '^', with the number they denote
WeightNumbers ==
    { [text |-> <<"0">>, value |-> 0],
      [text |-> <<"2">>, value |-> 2],
      [text |-> <<"2", ".", "0">>, value |-> 2] }

\* Rule texts passed to parse_rule: the numeric ranges; the alphabetic
\* ranges and those that mix a number and a letter; the rule texts with a
\* weight, after whitespace or none, and without a weight
ParseInputs ==
    { RangeText(a, b) : a, b \in RangeBounds }
    \cup ({ <<"[", x, "-", y, "]">> : x, y \in RangeLetters \cup {"1"} }
          \ { <<"[", "1", "-", "1", "]">> })
    \cup { t \o sep \o <<"^">> \o w.text :
             t \in WeightTexts, sep \in {<<>>, <<" ">>}, w \in WeightNumbers }
    \cup { t \o sep : t \in WeightTexts, sep \in {<<>>, <<" ">>} }

\* A call of parse_rule(string)
ParseRule(string) ==
    /\ last' = Let(parse_rule(string), LAMBDA parsed :
                   Outcome(Call("parse_rule", <<>>, FALSE, <<>>, string),
                           parsed.err, <<>>, <<>>, parsed.rule, NoPre))
    /\ streak' = Broken
    /\ UNCHANGED <<grammar, shared, variables, unused, drawn>>

\* evaluate_tokens(rule.tokens) on the rule parse_rule just returned
EvaluateRule ==
    /\ last.call.op = "parse_rule"
    /\ last.err = ""
    /\ \E r \in evaluate_tokens(last.rule.tokens, Current, 0) :
          /\ grammar' = r.st.grammar
          /\ shared' = r.st.shared
          /\ variables' = r.st.variables
          /\ unused' = r.st.unused
          /\ drawn' = r.st.drawn
          /\ last' = Outcome(Call("evaluate_rule", <<>>, FALSE, last.rule.tokens,
                                  last.call.pattern),
                             r.err, r.name, r.string, last.rule, NoPre)
          /\ streak' = Broken

ParseNext ==
    \/ \E string \in ParseInputs : ParseRule(string)
    \/ EvaluateRule

ParseSpec == Init /\ [][ParseNext]_vars

----------------------------------------------------------------------------
(* Loading a grammar: main reads the grammar source with parse_grammar and  *)
(* constructs the generator from it; the shell then imports grammar files   *)
(* into the generator; parse_rule is called on rule texts.                  *)

MaxLines == 3

\* The lines grammar sources are made of: headers, rule lines, a blank and
\* a comment line, import lines
LineAlphabet ==
    { <<"a">>, <<"b">>, <<"a", "!">>, <<"a", " ", "b">>,
      <<"\t", "x">>, <<"\t", "x", "^", "-", "5">>,
      <<"\t", "[", "u", "]", "^", "2">>,
      <<>>, <<"#", "c">>,
      <<"@", "f">>, <<"@", "g">>, <<"@", "e">> }

\* Grammar sources of at most MaxLines lines, of either kind
GrammarSources ==
    { [lines |-> lines, kind |-> kind] :
        lines \in UNION { [1..n -> LineAlphabet] : n \in 0..MaxLines },
        kind \in {"list", "file"} }

\* MayhapGenerator({}): a generator with no symbol, before main has read a
\* grammar
GrammarInit ==
    /\ grammar = <<>>
    /\ variables = <<>>
    /\ unused = <<>>
    /\ shared = {}
    /\ drawn = <<>>
    /\ last = Outcome(Call("init", <<>>, FALSE, <<>>, <<>>), "", <<>>, <<>>,
                      NoRule, NoPre)
    /\ streak = Broken

\* main: grammar = parse_grammar(args.grammar), the first thing done, and
\* the generator constructed from it; an exception ends main
Load(source) ==
    /\ last.call.op = "init"
    /\ Let(parse_grammar(source.lines, source.kind), LAMBDA g :
          /\ grammar' = IF g.exc = "" THEN g.grammar ELSE grammar
          /\ unused' = IF g.exc = "" THEN deepcopy(g.grammar).value ELSE unused
          /\ drawn' = IF g.exc = "" THEN NoneDrawn(g.grammar) ELSE drawn
          /\ last' = [call |-> Call("parse_grammar", <<>>, FALSE, <<>>, <<>>),
                      source |-> source, err |-> g.exc,
                      number |-> g.number, line |-> g.line])
    /\ UNCHANGED <<variables, shared, streak>>

\* The shell's do_import(arg): the imported grammar is merged into the
\* generator's grammar and a copy of it into the pools; a MayhapError is
\* printed
Import(arg) ==
    /\ ~(last.call.op = "parse_grammar" /\ last.err # "")
    /\ Let(import_grammar(arg), LAMBDA imported :
          /\ grammar' = IF imported.exc = "" THEN Merged(grammar, imported.grammar)
                        ELSE grammar
          /\ unused' = IF imported.exc = ""
                       THEN Merged(unused, deepcopy(imported.grammar).value)
                       ELSE unused
          /\ shared' = IF imported.exc = "" THEN shared \ DOMAIN imported.grammar
                       ELSE shared
          /\ drawn' = IF imported.exc = ""
                      THEN Merged(drawn, NoneDrawn(imported.grammar))
                      ELSE drawn
          /\ last' = [call |-> Call("do_import", <<>>, FALSE, <<>>, arg),
                      err |-> IF imported.exc = "MayhapError" THEN ""
                              ELSE imported.exc,
                      printed |-> imported.exc = "MayhapError",
                      pre |-> [grammar |-> grammar]])
    /\ UNCHANGED <<variables, streak>>

GrammarNext ==
    \/ \E source \in GrammarSources : Load(source)
    \/ \E arg \in {<<"f">>, <<"g">>, <<"e">>} : Import(arg)
    \/ \E string \in { <<"s", "t", " ", "^", "-", "5">>, <<"s", "t", "^", "-", "1">>,
                       <<"^", "-", "2">>, <<"s", "t", "^", "0">>,
                       <<"[", "x", "^", "-", "1", "|", "y", "]">>,
                       <<"[", "x", "^", "2", "|", "y", "^", "0", "]">> } :
          ParseRule(string)

GrammarSpec == GrammarInit /\ [][GrammarNext]_vars

----------------------------------------------------------------------------
(* Properties of evaluate_input and handle_input (claims C11, C12)         *)

\* The pool a unique draw of symbol s chooses from in the current state
PoolAtDraw(s) == IF unused[s] = {} THEN grammar[s] ELSE unused[s]

\* Symbols whose rules are text only
TextSymbols == {<<"a">>, <<"w">>, <<"d">>}

\* A step that is evaluate_input(pattern) returning a string
InputStep(pattern) ==
    /\ last'.call.op = "evaluate_input"
    /\ last'.call.pattern = pattern
    /\ last'.err = ""

\* C11: evaluate_input(p) with p the name of a symbol returns the expansion
\* of one rule taken from that symbol's pool by a unique draw, never p as
\* literal text; any other p is parsed as a rule and evaluated, with no
\* draw but those of the Symbol tokens in p.
C11_EvaluateInput ==
    /\ [][\A p \in TextSymbols \cap DOMAIN grammar :
            InputStep(p) =>
                /\ \E r \in PoolAtDraw(p) :
                      /\ unused' = [unused EXCEPT ![p] = PoolAtDraw(p) \ {r}]
                      /\ last'.string = PlainText(r.tokens)
                /\ last'.string # p]_vars
    /\ [][(<<"g">> \in DOMAIN grammar /\ InputStep(<<"g">>)) =>
            /\ \E r \in PoolAtDraw(<<"g">>) :
                  unused' = [unused EXCEPT ![<<"g">>] = PoolAtDraw(<<"g">>) \ {r}]
            /\ last'.string \in
                  {<<"x", "x">>}
                  \cup {Upper(variables[v]) : v \in {<<"v">>} \cap DOMAIN variables}]_vars
    /\ [][InputStep(<<"h", "i">>) =>
            last'.string = <<"h", "i">> /\ unused' = unused]_vars
    /\ [][(InputStep(<<"a">>) /\ <<"a">> \notin DOMAIN grammar) =>
            last'.string = <<"a">> /\ unused' = unused]_vars
    /\ [][(InputStep(<<"[", "a", "]">>) /\ <<"a">> \in DOMAIN grammar) =>
            \E r \in PoolAtDraw(<<"a">>) :
                /\ unused' = [unused EXCEPT ![<<"a">>] = PoolAtDraw(<<"a">>) \ {r}]
                /\ last'.string = PlainText(r.tokens)]_vars

\* C11 witness: evaluate_input("a") on the grammar with symbol a returned
\* the text of a rule that has left the pool
C11_Witness ==
    /\ last.call.op = "evaluate_input"
    /\ last.call.pattern = <<"a">>
    /\ <<"a">> \in DOMAIN grammar
    /\ last.err = ""
    /\ \E r \in grammar[<<"a">>] \ unused[<<"a">>] : last.string = PlainText(r.tokens)


\* Inputs whose evaluation fails in the current state: a rule that does not
\* parse, an undeclared symbol (unique and mundane), an unknown modifier, a
\* variable that is not bound, and a symbol whose rules all weigh 0
FailingInput(pattern) ==
    \/ pattern \in { <<"[", "a">>,
                     <<"[", "u", "]">>,
                     <<"[", "u", ".", "m", "u", "n", "d", "a", "n", "e", "]">>,
                     <<"[", "'", "c", "'", ".", "z", "z", "]">> }
    \/ pattern = <<"[", "$", "v", "]">> /\ <<"v">> \notin DOMAIN variables
    \/ pattern = <<"o">> /\ <<"o">> \in DOMAIN grammar

\* C12: handle_input never raises: for an input whose evaluation fails
\* (parse error, undeclared symbol in unique or mundane mode, unbound
\* variable, unknown modifier, a draw among rules of weight 0) it returns
\* False, and a valid input handled after a failed one returns True.
C12_HandleInputNeverRaises ==
    last.call.op = "handle_input" =>
        /\ last.err = ""
        /\ FailingInput(last.call.pattern) => last.returned = "False"
        /\ (last.after = "False" /\ ~FailingInput(last.call.pattern))
               => last.returned = "True"

\* The failures handle_input does report, and the recovery after them: every
\* call that returns at all returns False for a failing input and True for a
\* valid one, also right after a failed call
C12_ReportedFailures ==
    (last.call.op = "handle_input" /\ last.err = "") =>
        last.returned = IF FailingInput(last.call.pattern) THEN "False" ELSE "True"


----------------------------------------------------------------------------
(* Properties of modifiers (claim C13), under ModifierSpec                  *)

Modifiers ==
    {MOD_PLURAL, MOD_ARTICLE, MOD_ORDINAL, MOD_CAPITALIZE, MOD_LOWER,
     MOD_UPPER, MOD_TITLE, MOD_MUNDANE}

\* The last call evaluated one token that carries a modifier name outside
\* the eight modifiers
UnknownModifierEvaluated ==
    /\ last.call.op = "evaluate_tokens"
    /\ Len(last.call.tokens) = 1
    /\ last.call.tokens[1].kind # "assignment"
    /\ \E i \in DOMAIN last.call.tokens[1].modifiers :
           last.call.tokens[1].modifiers[i] \notin Modifiers

\* The last call evaluated one token whose only modifier is 'mundane'
MundaneEvaluated ==
    /\ last.call.op = "evaluate_tokens"
    /\ Len(last.call.tokens) = 1
    /\ last.call.tokens[1].kind # "assignment"
    /\ last.call.tokens[1].modifiers = <<MOD_MUNDANE>>
    /\ last.err = ""

\* The string of a token whose only modifier is 'mundane' is the string of
\* the token itself
MundaneLeavesString ==
    MundaneEvaluated =>
        LET token == last.call.tokens[1]
        IN  \/ token.kind \in {"literal", "pattern"} /\ last.string = <<"a", "b">>
            \/ token.kind = "range" /\ last.string \in {<<"1">>, <<"2">>}
            \/ token.kind = "variable" /\ last.string = variables[token.variable]
            \/ /\ token.kind = "symbol"
               /\ \E r \in grammar[token.symbol] : last.string = PlainText(r.tokens)

\* C13: evaluating a Literal, Pattern, Range, Symbol or Variable token that
\* carries an unknown modifier name raises MayhapError and returns no string,
\* wherever the name stands in the list; 'mundane' leaves the string of any
\* token unchanged.
C13_UnknownModifierRaises ==
    /\ UnknownModifierEvaluated => last.err = "MayhapError"
    /\ MundaneLeavesString

\* What holds of such a token: no string is returned, and the exception is
\* MayhapError unless the draw of a Symbol token raised before the modifiers
\* were applied
C13_NoStringReturned ==
    /\ UnknownModifierEvaluated =>
          /\ last.err # ""
          /\ last.err # "MayhapError" =>
                /\ last.call.tokens[1].kind = "symbol"
                /\ last.err \in {"KeyError", "ValueError"}
    /\ MundaneLeavesString


----------------------------------------------------------------------------
(* Properties of parse_rule (claims C14 to C17), under ParseSpec            *)

\* The rule parse_rule returned for the text [a-b]
RangeParsed(a, b) ==
    /\ last.call.op = "parse_rule"
    /\ last.call.pattern = RangeText(a, b)

\* The rule parsed from [a-b] was evaluated
RangeEvaluated(a, b) ==
    /\ last.call.op = "evaluate_rule"
    /\ last.call.pattern = RangeText(a, b)

\* C14: for integer bounds a and b in either order parse_rule('[a-b]') stores
\* the interval from min(a,b) to max(a,b) inclusive; every evaluation returns
\* the decimal rendering of a value of the interval, every value of the
\* interval can be returned and none outside it (for [3-1]: 1, 2 and 3).
C14_NumericRange ==
    /\ \A a, b \in RangeBounds :
          /\ RangeParsed(a, b) =>
                /\ last.err = ""
                /\ Len(last.rule.tokens) = 1
                /\ last.rule.tokens[1].kind = "range"
                /\ ~last.rule.tokens[1].alpha
                /\ last.rule.tokens[1].start = Min(a, b)
                /\ last.rule.tokens[1].stop - 1 = Max(a, b)
                /\ \A v \in Min(a, b) .. Max(a, b) :
                      \E r \in evaluate_tokens(last.rule.tokens, Current, 0) :
                          r.err = "" /\ r.string = IntToStr(v)
          /\ RangeEvaluated(a, b) =>
                /\ last.err = ""
                /\ \E v \in Min(a, b) .. Max(a, b) : last.string = IntToStr(v)
    /\ RangeParsed(3, 1) =>
          { r.string : r \in evaluate_tokens(last.rule.tokens, Current, 0) }
              = {<<"1">>, <<"2">>, <<"3">>}
    /\ RangeEvaluated(12, -3) =>
          last.string \in { <<"-", "3">>, <<"-", "2">>, <<"-", "1">>, <<"0">>,
                            <<"1">>, <<"2">>, <<"3">>, <<"4">>, <<"5">>, <<"6">>,
                            <<"7">>, <<"8">>, <<"9">>, <<"1", "0">>,
                            <<"1", "1">>, <<"1", "2">> }

\* [3-1] was parsed and evaluated, and the evaluation returned 2
C14_Witness ==
    /\ RangeEvaluated(3, 1)
    /\ last.err = ""
    /\ last.string = <<"2">>


\* parse_rule was called on the range [x-y]
LetterRangeParsed(x, y) ==
    /\ last.call.op = "parse_rule"
    /\ last.call.pattern = <<"[", x, "-", y, "]">>

\* C15: parse_rule raises MayhapError for an alphabetic range whose endpoints
\* differ in case ([a-B]) and for a range mixing a number and a letter
\* ([1-a]); every alphabetic Range token parse_rule produces has two
\* endpoints of the same case.
C15_AlphabeticRange ==
    /\ \A x, y \in RangeLetters :
          LetterRangeParsed(x, y) =>
              IF IsUpper(x) # IsUpper(y)
              THEN last.err = "MayhapError" /\ last.rule = NoRule
              ELSE /\ last.err = ""
                   /\ last.rule.tokens =
                         <<RangeToken(Min(Ord(x), Ord(y)), Max(Ord(x), Ord(y)) + 1,
                                      TRUE, <<>>)>>
    /\ \A x \in RangeLetters :
          (LetterRangeParsed(x, "1") \/ LetterRangeParsed("1", x)) =>
              last.err = "MayhapError" /\ last.rule = NoRule
    /\ (last.call.op = "parse_rule" /\ last.err = "") =>
          \A i \in DOMAIN last.rule.tokens :
              (last.rule.tokens[i].kind = "range" /\ last.rule.tokens[i].alpha) =>
                  /\ last.rule.tokens[i].start < last.rule.tokens[i].stop
                  /\ IsAlpha(Chr(last.rule.tokens[i].start))
                  /\ IsAlpha(Chr(last.rule.tokens[i].stop - 1))
                  /\ IsUpper(Chr(last.rule.tokens[i].start))
                        = IsUpper(Chr(last.rule.tokens[i].stop - 1))

\* parse_rule was called on [a-B] and raised
C15_Witness ==
    /\ LetterRangeParsed("a", "B")
    /\ last.err = "MayhapError"


\* Tokens with the whitespace at the end of a last text run removed, and
\* without empty text runs
Stripped(tokens) ==
    SelectSeq(IF tokens # <<>> /\ tokens[Len(tokens)].kind = "str"
              THEN Append(SubSeq(tokens, 1, Len(tokens) - 1),
                          Str(RStrip(tokens[Len(tokens)].string)))
              ELSE tokens,
              LAMBDA token : token # Str(<<>>))

\* parse_rule was called on t, sep, '^' and w
WeightedParsed(t, sep, w) ==
    /\ last.call.op = "parse_rule"
    /\ last.call.pattern = t \o sep \o <<"^">> \o w.text

\* What the rule parsed from t, sep, '^' and w is to be
WeightedRule(t, sep, w) ==
    /\ last.err = ""
    /\ last.rule.weight = w.value
    /\ Stripped(last.rule.tokens) = Stripped(parse_rule(t \o sep).rule.tokens)

\* A rule text without a weight gets the default weight
Unweighted ==
    \A t \in WeightTexts, sep \in {<<>>, <<" ">>} :
        (last.call.op = "parse_rule" /\ last.call.pattern = t \o sep) =>
            last.err = "" /\ last.rule.weight = DEFAULT_WEIGHT

\* C16: for every rule text t and number w >= 0, parse_rule of t followed by
\* '^w', with or without whitespace before '^', returns a Rule of weight w
\* whose tokens are those of t without the trailing whitespace, whether t
\* ends with a text run or with a bracketed block; without '^w' the weight
\* is 1.
C16_WeightSuffix ==
    /\ \A t \in WeightTexts, sep \in {<<>>, <<" ">>}, w \in WeightNumbers :
          WeightedParsed(t, sep, w) => WeightedRule(t, sep, w)
    /\ Unweighted

\* What holds: the same whenever the token before '^' is a text run, or
\* there is none
C16_WeightAfterText ==
    /\ \A t \in WeightTexts, sep \in {<<>>, <<" ">>}, w \in WeightNumbers :
          (/\ WeightedParsed(t, sep, w)
           /\ \/ t \o sep = <<>>
              \/ LET tokens == parse_rule(t \o sep).rule.tokens
                 IN  tokens[Len(tokens)].kind = "str")
          => WeightedRule(t, sep, w)
    /\ Unweighted


----------------------------------------------------------------------------
(* Properties of rule weights and of parse_grammar (claims C17 to C20),     *)
(* under GrammarSpec                                                        *)

\* The rule and the rules of the alternatives, patterns and assignments in
\* it have weights >= 0
RECURSIVE NonNegative(_)
NonNegative(rule) ==
    /\ rule.weight >= 0
    /\ \A i \in DOMAIN rule.tokens :
          LET token == rule.tokens[i]
          IN  /\ token.kind = "choice" =>
                    \A j \in DOMAIN token.rules : NonNegative(token.rules[j])
              /\ token.kind = "pattern" => NonNegative(Rule(token.tokens, 0))
              /\ token.kind = "assignment" => NonNegative(Rule(token.value, 0))

\* The rule line with a negative weight
NegativeLine == <<"\t", "x", "^", "-", "5">>

\* C17: every Rule parse_rule or parse_grammar returns has weight >= 0, and
\* so has every alternative of a Choice token in it; a rule text with a
\* negative weight raises MayhapError and produces no Rule.
C17_WeightsNonNegative ==
    /\ last.call.op = "parse_rule" =>
          IF \E k \in DOMAIN last.call.pattern : last.call.pattern[k] = "-"
          THEN last.err = "MayhapError" /\ last.rule = NoRule
          ELSE last.err = "" /\ NonNegative(last.rule)
    /\ \A symbol \in DOMAIN grammar : \A rule \in grammar[symbol] : NonNegative(rule)
    /\ (/\ last.call.op = "parse_grammar"
        /\ \E k \in DOMAIN last.source.lines : last.source.lines[k] = NegativeLine)
       => /\ last.err # ""
          /\ last.line = NegativeLine => last.err = "MayhapGrammarError"

\* parse_rule was called on 'st ^-5' and raised
C17_Witness ==
    /\ last.call.op = "parse_rule"
    /\ last.call.pattern = <<"s", "t", " ", "^", "-", "5">>
    /\ last.err = "MayhapError"

\* A source with a header, a rule line and then the rule line of negative
\* weight was read and refused at that line
C17_GrammarWitness ==
    /\ last.call.op = "parse_grammar"
    /\ last.source.lines = << <<"a">>, <<"\t", "x">>, NegativeLine >>
    /\ last.err = "MayhapGrammarError"
    /\ last.number = 3


\* The headers of the sources
Headers == {<<"a">>, <<"b">>}

\* The last call read a source made of headers, the rule line, blank and
\* comment lines only
PlainSourceRead ==
    /\ last.call.op = "parse_grammar"
    /\ \A k \in DOMAIN last.source.lines :
          last.source.lines[k] \in Headers \cup {<<"\t", "x">>, <<>>, <<"#", "c">>}

\* The header at line k is followed by no rule line before the next header
\* or the end of the lines
Ruleless(lines, k) ==
    /\ lines[k] \in Headers
    /\ \A j \in (k + 1) .. Len(lines) :
          lines[j] = <<"\t", "x">> => \E h \in (k + 1) .. (j - 1) : lines[h] \in Headers

\* The error carries the number and the text of one line of the source
LineIdentified ==
    /\ last.err = "MayhapGrammarError"
    /\ last.number \in DOMAIN last.source.lines
    /\ last.line = last.source.lines[last.number]

\* C18: parse_grammar raises MayhapGrammarError whenever a symbol header is
\* followed by no rule line before the next header or before the end of the
\* input, for a list of lines and for a file alike, and the error carries
\* the number and the text of a line of the source.
C18_RulelessSymbolRaises ==
    (PlainSourceRead /\ \E k \in DOMAIN last.source.lines : Ruleless(last.source.lines, k))
        => LineIdentified

\* What holds: the same for a list of lines, and for a file when a later
\* header closes the symbol; at the end of a file TypeError is raised
C18_RulelessInList ==
    (PlainSourceRead /\ \E k \in DOMAIN last.source.lines : Ruleless(last.source.lines, k))
        => \/ LineIdentified
           \/ /\ last.source.kind = "file"
              /\ last.err = "TypeError"
              /\ \A k \in DOMAIN last.source.lines :
                    Ruleless(last.source.lines, k) =>
                        \A j \in (k + 1) .. Len(last.source.lines) :
                            last.source.lines[j] \notin Headers


\* Line k is invalid: a header that is no symbol name, a rule that does not
\* parse, an import that fails, or a rule line with no header before it
Invalid(lines, k) ==
    \/ lines[k] \in { <<"a", "!">>, <<"a", " ", "b">>, NegativeLine,
                      <<"@", "g">>, <<"@", "e">> }
    \/ /\ lines[k] # <<>>
       /\ lines[k][1] = "\t"
       /\ \A h \in 1 .. (k - 1) : lines[h] \notin Headers

\* Every symbol of the generator's grammar has a rule
RuleSetsNonempty == \A symbol \in DOMAIN grammar : grammar[symbol] # {}

\* C19: every grammar parse_grammar returns maps each symbol to a nonempty
\* rule set, also with repeated headers, blank and comment lines and
\* imports; when a line is invalid (a rule line before any header, a rule
\* that fails to parse, an invalid symbol name, a failing import)
\* parse_grammar raises MayhapGrammarError and returns no grammar.
C19_GrammarOrError ==
    last.call.op = "parse_grammar" =>
        /\ last.err \in {"", "MayhapGrammarError"}
        /\ last.err = "" => RuleSetsNonempty
        /\ (\E k \in DOMAIN last.source.lines : Invalid(last.source.lines, k))
              => last.err = "MayhapGrammarError"

\* What holds: a grammar that is returned has no empty rule set, and a
\* source with a rule line before any header, a rule of negative weight, a
\* header holding two names or an import of a missing file returns none,
\* when it has no header "a!" and no import of the file "e"
C19_NonemptyRuleSets ==
    /\ RuleSetsNonempty
    /\ ( /\ last.call.op = "parse_grammar"
         /\ \E k \in DOMAIN last.source.lines : Invalid(last.source.lines, k)
         /\ \A k \in DOMAIN last.source.lines :
               last.source.lines[k] \notin {<<"a", "!">>, <<"@", "e">>} )
       => last.err # ""


\* The rule set the file f.mh gives "a" and "c", and the rule set of a
\* symbol of the sources
ImportedRules == {Rule(<<Str(<<"z">>)>>, DEFAULT_WEIGHT)}
BaseRules == {Rule(<<Str(<<"x">>)>>, DEFAULT_WEIGHT)}

\* The last call read, without error, a source of headers, rule lines and
\* imports of f only, that defines "a" and imports f
BaseAndImportRead ==
    /\ last.call.op = "parse_grammar"
    /\ last.err = ""
    /\ \A k \in DOMAIN last.source.lines :
          last.source.lines[k] \in Headers \cup {<<"\t", "x">>, <<"@", "f">>}
    /\ \E k \in DOMAIN last.source.lines : last.source.lines[k] = <<"a">>
    /\ \E k \in DOMAIN last.source.lines : last.source.lines[k] = <<"@", "f">>

\* The shell imported f into the generator
ImportedByShell ==
    /\ last.call.op = "do_import"
    /\ last.call.pattern = <<"f">>

\* do_import puts the imported rule sets in the grammar and in the pools and
\* keeps the other symbols
ShellImportMerges ==
    ImportedByShell =>
        /\ last.err = "" /\ ~last.printed
        /\ grammar[<<"a">>] = ImportedRules /\ unused[<<"a">>] = ImportedRules
        /\ grammar[<<"c">>] = ImportedRules /\ unused[<<"c">>] = ImportedRules
        /\ \A symbol \in DOMAIN last.pre.grammar \ {<<"a">>, <<"c">>} :
              symbol \in DOMAIN grammar /\ grammar[symbol] = last.pre.grammar[symbol]

\* C20: a symbol defined both in a grammar source and in a grammar the source
\* imports holds the imported rule set and none of the base rules, wherever
\* the import line stands; symbols defined on one side only are kept.
C20_ImportedReplacesBase ==
    /\ BaseAndImportRead =>
          /\ grammar[<<"a">>] = ImportedRules
          /\ grammar[<<"c">>] = ImportedRules
          /\ (\E k \in DOMAIN last.source.lines : last.source.lines[k] = <<"b">>)
                => grammar[<<"b">>] = BaseRules
    /\ ShellImportMerges

\* What holds: the import replaces the definitions made before it; a header
\* "a" after the import starts an empty rule set again, and a rule line
\* after the import is added to the rule set of the current symbol
C20_LastWriterWins ==
    /\ BaseAndImportRead =>
          LET lines == last.source.lines
              n == Len(lines)
          IN  /\ lines[n] = <<"@", "f">> => grammar[<<"a">>] = ImportedRules
              /\ (\E k \in 1 .. n : /\ lines[k] = <<"a">>
                                    /\ \A j \in k .. n : lines[j] # <<"@", "f">>)
                    => grammar[<<"a">>] = BaseRules
              /\ (n = 3 /\ lines[1] = <<"a">> /\ lines[2] = <<"@", "f">>
                    /\ lines[3] = <<"\t", "x">>)
                    => grammar[<<"a">>] = ImportedRules \cup BaseRules
              /\ grammar[<<"c">>] = ImportedRules
              /\ (\E k \in 1 .. n : lines[k] = <<"b">>) => grammar[<<"b">>] = BaseRules
    /\ ShellImportMerges

----------------------------------------------------------------------------
(* Properties of symbol names (claim C21), under GrammarSpec                *)

\* s is one identifier: a letter or underscore, then letters, digits or
\* underscores
IsIdentifier(s) ==
    /\ s # <<>>
    /\ s[1] \in IdentStartChars
    /\ \A k \in 2 .. Len(s) : s[k] \in IdentBodyChars

\* Line k is a header: not blank, not a comment, not indented, no import
HeaderLine(lines, k) ==
    /\ lines[k] # <<>>
    /\ lines[k][1] \notin WhiteChars \cup {"#", "@"}

\* The last call read a source of headers, the rule line, blank and comment
\* lines, in which every symbol has a rule
HeadersWithRulesRead ==
    /\ last.call.op = "parse_grammar"
    /\ \A k \in DOMAIN last.source.lines :
          /\ last.source.lines[k] \in
                Headers \cup { <<"a", "!">>, <<"a", " ", "b">>,
                               <<"\t", "x">>, <<>>, <<"#", "c">> }
          /\ HeaderLine(last.source.lines, k) =>
                /\ k < Len(last.source.lines)
                /\ last.source.lines[k + 1] = <<"\t", "x">>
    /\ last.source.lines # <<>> => HeaderLine(last.source.lines, 1)

\* C21: every key of a grammar returned by parse_grammar is a nonempty
\* identifier, and a header line whose text is not exactly one identifier
\* raises MayhapGrammarError instead of being accepted as a symbol name.
C21_KeysAreIdentifiers ==
    /\ \A symbol \in DOMAIN grammar : IsIdentifier(symbol)
    /\ ( /\ HeadersWithRulesRead
         /\ \E k \in DOMAIN last.source.lines :
               /\ HeaderLine(last.source.lines, k)
               /\ ~IsIdentifier(last.source.lines[k]) )
       => last.err = "MayhapGrammarError"

\* What holds: every key holds exactly one identifier, and a header in which
\* two identifiers are found raises MayhapGrammarError at its line
C21_OneIdentifierFound ==
    /\ \A symbol \in DOMAIN grammar : SymbolCount(symbol, 0) = 1
    /\ ( /\ HeadersWithRulesRead
         /\ \E k \in DOMAIN last.source.lines :
               last.source.lines[k] = <<"a", " ", "b">> )
       => /\ last.err = "MayhapGrammarError"
          /\ last.source.lines[last.number] = <<"a", " ", "b">>

----------------------------------------------------------------------------
(* Evaluation of rules made of text, Literal and Choice tokens: the        *)
(* generator called with evaluate_tokens on rules of text and literals,     *)
(* and with the rules parse_rule makes of texts that hold a choice block,   *)
(* between draws and resets that change the generator's state.              *)

\* The token sequences passed to evaluate_tokens are rules of text segments
\* and Literal tokens without modifiers, and texts in which the word "cat"
\* and the marker "(s)" follow nothing, a separator, or a number; the texts
\* passed to parse_rule hold a choice block, or a block that is none
TextNext ==
    \/ Reset
    \/ Produce(<<"a">>, TRUE)
    \/ \E tokens \in
          { <<>>,
            <<T(<<"h", "i">>)>>,
            <<T(<<"x">>), LiteralToken(<<"y">>, NoMods), T(<<"z">>)>>,
            <<LiteralToken(<<"a", "(", "n", ")", " ">>, NoMods), T(<<"e", "g", "g">>)>>,
            <<T(<<"1", " ", "c", "a", "t", "(", "s", ")", " ",
                  "2", " ", "d", "o", "g", "(", "s", ")">>)>> }
          \cup { <<T(prefix \o <<"c", "a", "t", "(", "s", ")">> \o suffix)>> :
                   prefix \in { <<>>, <<" ">>, <<"1", " ">>, <<"2", " ">>,
                                <<"1", ".", "0", " ">>, <<"-", "1", " ">>,
                                <<"x", " ", "1", " ">>, <<"1", "-", "2", " ">> },
                   suffix \in { <<>>, <<" ", "x">> } } :
          EvaluateTokens(tokens)
    \/ \E string \in { <<"[", "h", "|", "]">>,
                       <<"[", "h", "^", "0", "|", "j", "^", "2", "|", "k", "]">>,
                       <<"[", "[", "a", "]", "|", "k", "]">>,
                       <<"[", "h", "]">> } :
          ParseRule(string)
    \/ EvaluateRule

TextSpec == Init /\ [][TextNext]_vars

----------------------------------------------------------------------------
(* Properties of Choice, text and literal evaluation (claims C22 to C24),   *)
(* under TextSpec                                                           *)

\* The rule is one Choice token
OneChoice(rule) == Len(rule.tokens) = 1 /\ rule.tokens[1].kind = "choice"

\* The alternative holds text only
Plain(rule) == \A k \in DOMAIN rule.tokens : rule.tokens[k].kind = "str"

\* parse_rule has returned a rule that is one Choice token
ChoiceParsed ==
    /\ last.call.op = "parse_rule"
    /\ last.err = ""
    /\ OneChoice(last.rule)

\* The rule of one Choice token has been evaluated
ChoiceEvaluated ==
    /\ last.call.op = "evaluate_rule"
    /\ OneChoice(last.rule)

\* The Choice tokens parse_rule makes: two alternatives at least, a side
\* with no text being the empty rule
ChoiceAlternatives ==
    /\ (last.call.op = "parse_rule" /\ last.err = "") =>
          \A k \in DOMAIN last.rule.tokens :
              last.rule.tokens[k].kind = "choice" =>
                  Len(last.rule.tokens[k].rules) >= 2
    /\ (last.call.op = "parse_rule" /\ last.call.pattern = <<"[", "h", "|", "]">>) =>
          last.rule = Rule(<<ChoiceToken(<<Rule(<<T(<<"h">>)>>, DEFAULT_WEIGHT),
                                           Rule(<<>>, DEFAULT_WEIGHT)>>)>>,
                           DEFAULT_WEIGHT)
    /\ (last.call.op = "parse_rule" /\ last.call.pattern = <<"[", "h", "]">>) =>
          ~OneChoice(last.rule)

\* Whatever the pools and variables hold and whatever was selected before,
\* the evaluation can select each alternative of positive weight: a text
\* alternative is then returned with the generator as it was, and one that
\* holds a Symbol token leaves the draw of that symbol behind
EachAlternativeSelectable ==
    ChoiceParsed =>
        \A k \in DOMAIN last.rule.tokens[1].rules :
            LET alt == last.rule.tokens[1].rules[k]
                results == evaluate_tokens(last.rule.tokens, Current, 0)
            IN  alt.weight > 0 =>
                    IF Plain(alt)
                    THEN Returns(PlainText(alt.tokens), Current) \in results
                    ELSE \E r \in results :
                            \/ r.err = "MayhapError"
                            \/ r.err = "" /\ r.st.unused # unused

\* An evaluation of a Choice that returned the text of a text alternative
\* has left every pool as it was; any other has changed at most the pool of
\* the symbol "a" of the selected alternative, by a draw
ChoiceFrame ==
    ChoiceEvaluated' =>
        /\ variables' = variables /\ grammar' = grammar
        /\ IF \E k \in DOMAIN last.rule.tokens[1].rules :
                 /\ Plain(last.rule.tokens[1].rules[k])
                 /\ last'.err = ""
                 /\ last'.string = PlainText(last.rule.tokens[1].rules[k].tokens)
           THEN unused' = unused
           ELSE \A s \in DOMAIN unused :
                   /\ s # <<"a">> => unused'[s] = unused[s]
                   /\ unused'[s] # unused[s] =>
                         /\ last'.err = ""
                         /\ \E r \in grammar[s] :
                               /\ PlainText(r.tokens) = last'.string
                               /\ unused'[s] =
                                     (IF unused[s] = {} THEN grammar[s]
                                      ELSE unused[s]) \ {r}

\* C22: each evaluation of a Choice token makes a new weighted selection
\* among all of its alternatives (two at least, an alternative may be the
\* empty rule), independent of earlier evaluations and of the unused pools:
\* an alternative of positive weight can be selected at every evaluation,
\* and the evaluation removes nothing from an unused pool except through a
\* Symbol token inside the selected alternative.
C22_ChoiceSelection ==
    /\ [](ChoiceAlternatives /\ EachAlternativeSelectable)
    /\ [][ChoiceFrame]_vars

\* The choice between the symbol "a" and the text "k" has returned "k" with
\* one rule left in the pool of "a"
C22_Witness ==
    /\ ChoiceEvaluated
    /\ last.call.pattern = <<"[", "[", "a", "]", "|", "k", "]">>
    /\ last.err = ""
    /\ last.string = <<"k">>
    /\ <<"a">> \in DOMAIN unused
    /\ Cardinality(unused[<<"a">>]) = 1

\* The empty alternative has been selected
C22_EmptySelected ==
    /\ ChoiceEvaluated
    /\ last.call.pattern = <<"[", "h", "|", "]">>
    /\ last.err = ""
    /\ last.string = <<>>

\* The rule holds text segments and Literal tokens without modifiers only
TextOnly(tokens) ==
    \A k \in DOMAIN tokens :
        \/ tokens[k].kind = "str"
        \/ tokens[k].kind = "literal" /\ tokens[k].modifiers = <<>>

\* The rules of text and literals that are evaluated
TextRules ==
    { <<>>,
      <<T(<<"h", "i">>)>>,
      <<T(<<"x">>), LiteralToken(<<"y">>, NoMods), T(<<"z">>)>>,
      <<LiteralToken(<<"a", "(", "n", ")", " ">>, NoMods), T(<<"e", "g", "g">>)>>,
      <<T(<<"c", "a", "t", "(", "s", ")">>)>>,
      <<T(<<"1", " ", "c", "a", "t", "(", "s", ")">>)>>,
      <<T(<<"2", " ", "c", "a", "t", "(", "s", ")", " ", "x">>)>>,
      <<T(<<"1", "-", "2", " ", "c", "a", "t", "(", "s", ")">>)>> }

\* What evaluate_tokens returns or raises, without the generator it leaves
Outcomes(results) == { [err |-> r.err, string |-> r.string] : r \in results }

\* A generator of the empty grammar, just constructed
EmptyGenerator == GenState(<<>>, {}, <<>>, <<>>, <<>>)

\* The text has the word "cat" and its marker at the first character, or
\* after "1-2"
MarkerAfterNothing(tokens) ==
    /\ Len(tokens) = 1
    /\ \/ PySlice(tokens[1].string, 0, 6) = <<"c", "a", "t", "(", "s", ")">>
       \/ PySlice(tokens[1].string, 0, 4) = <<"1", "-", "2", " ">>

\* C23: a rule that holds only text segments and Literal tokens without
\* modifiers evaluates to the same string on every call, in every state of
\* the generator and after any sequence of other evaluations.
C23_TextIdempotent ==
    ( /\ last.call.op = "evaluate_tokens"
      /\ TextOnly(last.call.tokens) )
    => /\ last.err = ""
       /\ \A f \in evaluate_tokens(last.call.tokens, EmptyGenerator, 0) :
             f.err = "" /\ f.string = last.string
       /\ evaluate_tokens(last.call.tokens, Current, 0)
             = {Returns(last.string, Current)}

\* What holds: every call has the same outcome and leaves the generator as
\* it was; the outcome is a string unless the text has the marker "(s)"
\* after a word at its first character or after "1-2", and then it is the
\* exception resolve_plurals raises
C23_SameOutcome ==
    \A tokens \in TextRules :
        TextOnly(tokens) =>
            LET fresh == Outcomes(evaluate_tokens(tokens, EmptyGenerator, 0))
                now == evaluate_tokens(tokens, Current, 0)
            IN  /\ Cardinality(fresh) = 1
                /\ Outcomes(now) = fresh
                /\ \A r \in now : r.st = Current
                /\ \A r \in now :
                      IF MarkerAfterNothing(tokens)
                      THEN r.err \in {"UnboundLocalError", "ValueError"}
                      ELSE r.err = ""

\* The word and its marker, and what stands before and after them in the
\* texts: nothing, a separator, a number, a number after a word
Marked == <<"c", "a", "t", "(", "s", ")">>
Prefixes ==
    { <<>>, <<" ">>, <<"1", " ">>, <<"2", " ">>, <<"1", ".", "0", " ">>,
      <<"-", "1", " ">>, <<"x", " ", "1", " ">> }
Suffixes == { <<>>, <<" ", "x">> }

\* The word in the number the prefix gives: the prefixes whose number is 1
\* leave it unchanged, the others and those without a number make the plural
InNumber(prefix) ==
    IF prefix \in { <<"1", " ">>, <<"1", ".", "0", " ">>, <<"x", " ", "1", " ">> }
    THEN <<"c", "a", "t">>
    ELSE <<"c", "a", "t", "s">>

\* evaluate_tokens was called on the text prefix, word, marker, suffix
MarkedEvaluated(prefix, suffix) ==
    /\ last.call.op = "evaluate_tokens"
    /\ last.call.tokens = <<T(prefix \o Marked \o suffix)>>

\* evaluate_tokens was called on the text with two words and markers
TwoMarkedEvaluated ==
    /\ last.call.op = "evaluate_tokens"
    /\ last.call.tokens = <<T(<<"1", " ", "c", "a", "t", "(", "s", ")", " ",
                                "2", " ", "d", "o", "g", "(", "s", ")">>)>>

\* C24: in the text of a rule every marker "(s)" that directly follows a
\* word is replaced, with the word, by the word in the number given by the
\* number standing before it: unchanged for 1, the plural for any other
\* number and when no number precedes; also for a word that begins at the
\* first character of the text ("cat(s)" evaluates to "cats").
C24_PluralMarker ==
    /\ \A prefix \in Prefixes, suffix \in Suffixes :
          MarkedEvaluated(prefix, suffix) =>
              /\ last.err = ""
              /\ last.string = prefix \o InNumber(prefix) \o suffix
    /\ TwoMarkedEvaluated =>
          /\ last.err = ""
          /\ last.string = <<"1", " ", "c", "a", "t", " ",
                             "2", " ", "d", "o", "g", "s">>

\* What holds: the same when a character that is no letter stands before
\* the word; a word at the first character of the text raises
\* UnboundLocalError, and "1-2" before the word raises ValueError
C24_PluralAfterSeparator ==
    /\ \A prefix \in Prefixes, suffix \in Suffixes :
          MarkedEvaluated(prefix, suffix) =>
              IF prefix = <<>>
              THEN last.err = "UnboundLocalError"
              ELSE /\ last.err = ""
                   /\ last.string = prefix \o InNumber(prefix) \o suffix
    /\ \A suffix \in Suffixes :
          MarkedEvaluated(<<"1", "-", "2", " ">>, suffix) => last.err = "ValueError"
    /\ TwoMarkedEvaluated =>
          /\ last.err = ""
          /\ last.string = <<"1", " ", "c", "a", "t", " ",
                             "2", " ", "d", "o", "g", "s">>

----------------------------------------------------------------------------
(* The interactive shell (src/mayhap/shell.py): main reads the grammar and  *)
(* constructs the generator, then the shell runs the commands evaluate,     *)
(* add, remove and import on it.  An exception that leaves a command ends   *)
(* the command loop.                                                        *)

\* join_as_strings(objects, delimiter): str() of each object, a Rule
\* (tokens, '^', the weight, a float) or a token, joined by the delimiter
RECURSIVE join_as_strings(_, _)
join_as_strings(objects, delimiter) ==
    IF objects = <<>> THEN <<>>
    ELSE
    LET obj == Head(objects)
        Block(term, modifiers) ==
            LET Terms[k \in 0 .. Len(modifiers)] ==
                    IF k = 0 THEN term
                    ELSE Terms[k - 1] \o <<".">> \o modifiers[k]
            IN  <<"[">> \o Terms[Len(modifiers)] \o <<"]">>
        string ==
            IF "weight" \in DOMAIN obj
            THEN join_as_strings(obj.tokens, <<>>) \o <<"^">>
                     \o IntToStr(obj.weight) \o <<".", "0">>
            ELSE IF obj.kind = "str" THEN obj.string
            ELSE IF obj.kind = "literal"
            THEN Block(<<"'">> \o obj.string \o <<"'">>, obj.modifiers)
            ELSE IF obj.kind = "pattern"
            THEN Block(<<"\"">> \o join_as_strings(obj.tokens, <<>>) \o <<"\"">>,
                       obj.modifiers)
            ELSE IF obj.kind = "range"
            THEN Block(IF obj.alpha
                       THEN <<Chr(obj.start), "-", Chr(obj.stop - 1)>>
                       ELSE IntToStr(obj.start) \o <<"-">> \o IntToStr(obj.stop - 1),
                       obj.modifiers)
            ELSE IF obj.kind = "symbol" THEN Block(obj.symbol, obj.modifiers)
            ELSE IF obj.kind = "variable"
            THEN <<"[", "$">> \o obj.variable \o <<"]">>
            ELSE IF obj.kind = "assignment"
            THEN <<"[">> \o obj.variable \o <<IF obj.echo THEN "=" ELSE "~">>
                     \o join_as_strings(obj.value, <<>>) \o <<"]">>
            ELSE <<"[">> \o join_as_strings(obj.rules, <<"|">>) \o <<"]">>
    IN  IF Len(objects) = 1 THEN string
        ELSE string \o delimiter \o join_as_strings(Tail(objects), delimiter)

\* do_add(arg): terms = arg.split(' '), symbol = terms[0]; a symbol the
\* grammar does not have gets an empty rule set; then, with a rule text, the
\* text is parsed and the rule added to the rule set
Add(arg) ==
    /\ last.err = ""
    /\ Let(SubSeq(arg, 1, IF CountOf(" ", arg) > 0 THEN IndexOf(" ", arg) - 1
                          ELSE Len(arg)), LAMBDA symbol :
       Let(IF arg = <<>> \/ CountOf(" ", arg) = 0
           THEN ParseOutcome("", NoRule)
           ELSE parse_rule(Strip(SubSeq(arg, Len(symbol) + 1, Len(arg)))),
           LAMBDA parsed :
       Let(IF arg = <<>> \/ symbol \in DOMAIN grammar THEN grammar
           ELSE Merged(grammar, [s \in {symbol} |-> {}]), LAMBDA created :
          /\ grammar' = IF arg # <<>> /\ CountOf(" ", arg) > 0 /\ parsed.err = ""
                        THEN [created EXCEPT ![symbol] = @ \cup {parsed.rule}]
                        ELSE created
          /\ unused' = IF /\ arg # <<>> /\ CountOf(" ", arg) > 0 /\ parsed.err = ""
                          /\ symbol \in shared
                       THEN [unused EXCEPT ![symbol] = @ \cup {parsed.rule}]
                       ELSE unused
          /\ last' = [call |-> Call("do_add", symbol, FALSE, <<>>, arg),
                      err |-> parsed.err,
                      printed |-> \/ arg = <<>>
                                  \/ /\ symbol \in DOMAIN grammar
                                     /\ CountOf(" ", arg) = 0,
                      pre |-> [grammar |-> grammar, unused |-> unused]])))
    /\ UNCHANGED <<variables, shared, drawn, streak>>

\* do_remove(arg): with the symbol alone, grammar.remove(symbol) is called,
\* which a dict does not have; with a rule text, the first rule of the
\* symbol whose str() is the text is removed from the rule set
Remove(arg) ==
    /\ last.err = ""
    /\ Let(SubSeq(arg, 1, IF CountOf(" ", arg) > 0 THEN IndexOf(" ", arg) - 1
                          ELSE Len(arg)), LAMBDA symbol :
       Let(IF arg = <<>> \/ CountOf(" ", arg) # 1 \/ symbol \notin DOMAIN grammar
           THEN {}
           ELSE { rule \in grammar[symbol] :
                    join_as_strings(<<rule>>, <<>>)
                        = Strip(SubSeq(arg, Len(symbol) + 1, Len(arg))) },
           LAMBDA found :
          \E rules \in IF found = {} THEN {{}} ELSE { {rule} : rule \in found } :
              /\ grammar' = IF rules = {} THEN grammar
                            ELSE [grammar EXCEPT ![symbol] = @ \ rules]
              /\ unused' = IF rules # {} /\ symbol \in shared
                           THEN [unused EXCEPT ![symbol] = @ \ rules]
                           ELSE unused
              /\ last' = [call |-> Call("do_remove", symbol, FALSE, <<>>, arg),
                          err |-> IF /\ arg # <<>>
                                     /\ CountOf(" ", arg) = 0
                                     /\ symbol \in DOMAIN grammar
                                  THEN "AttributeError" ELSE "",
                          printed |-> \/ arg = <<>>
                                      \/ CountOf(" ", arg) > 1
                                      \/ symbol \notin DOMAIN grammar
                                      \/ CountOf(" ", arg) = 1 /\ rules = {},
                          pre |-> [grammar |-> grammar, unused |-> unused]]))
    /\ UNCHANGED <<variables, shared, drawn, streak>>

\* The grammar files main is started with hold a symbol that refers to
\* another, or a symbol that refers to itself; the commands name symbols
\* the grammar has ("a", "b", "r"), a new one ("n"), rule texts that parse
\* and one that does not
ShellNext ==
    \/ \E lines \in { << <<"b">>, <<"\t", "[", "a", "]">>, <<"a">>, <<"\t", "x">> >>,
                      << <<"r">>, <<"\t", "[", "r", "]">> >> } :
          Load([lines |-> lines, kind |-> "file"])
    \/ \E arg \in { <<>>, <<"a">>, <<"n">>, <<"a", " ", "q">>, <<"n", " ", "q">>,
                    <<"a", " ", "[">>, <<"n", " ", "[">> } :
          Add(arg)
    \/ \E arg \in { <<>>, <<"a">>, <<"n">>, <<"a", " ", "x">>,
                    <<"a", " ", "x", "^", "1", ".", "0">>,
                    <<"a", " ", "x", " ", "y">> } :
          Remove(arg)
    \/ \E arg \in { <<"f">> } : last.err = "" /\ Import(arg)
    \/ \E pattern \in { <<"a">>, <<"b">>, <<"r">>, <<"n">>,
                        <<"[", "n", ".", "m", "u", "n", "d", "a", "n", "e", "]">>,
                        <<"c", "a", "t", "(", "s", ")">>,
                        <<"[", "v", "=", "'", "y", "'", "]", "[", "a", "]",
                          "[", "$", "u", "]">> } :
          last.err = "" /\ HandleInput(pattern)

ShellSpec == GrammarInit /\ [][ShellNext]_vars

----------------------------------------------------------------------------
(* Properties of the shell commands and of termination (claims C25, C28,    *)
(* C29), under ShellSpec                                                    *)

\* The symbol the commands create, and the rule `add n q` gives it
NewSymbol == <<"n">>
AddedRule == Rule(<<T(<<"q">>)>>, DEFAULT_WEIGHT)

\* The last command evaluated the input
Evaluated(pattern) ==
    /\ last.call.op = "handle_input"
    /\ last.call.pattern = pattern

\* C25: after any sequence of the commands add, remove and import and of
\* evaluations, the symbols that have an unused pool are the symbols of the
\* grammar and each pool is a subset of the symbol's rule set; a symbol
\* created by `add symbol rule` is evaluated to the expansion of its rule,
\* and a removed rule is drawn no more.
C25_PoolsFollowGrammar ==
    /\ DOMAIN unused = DOMAIN grammar
    /\ \A s \in DOMAIN unused \cap DOMAIN grammar : unused[s] \subseteq grammar[s]
    /\ ( /\ Evaluated(NewSymbol)
         /\ NewSymbol \in DOMAIN grammar
         /\ grammar[NewSymbol] = {AddedRule} )
       => /\ last.returned = "True"
          /\ last.string = <<"q">>

\* What holds: every symbol with a pool is a symbol of the grammar; import
\* gives each imported symbol its rule set as pool; add and remove leave
\* every pool as it was, so that a symbol made by add has no pool, its
\* evaluation fails with "Symbol not found", and the pool keeps a removed rule
C25_ImportFillsPools ==
    /\ DOMAIN unused \subseteq DOMAIN grammar
    /\ (last.call.op = "do_import" /\ ~last.printed) =>
          \A s \in {<<"a">>, <<"c">>} : unused[s] = grammar[s]
    /\ last.call.op \in {"do_add", "do_remove"} => unused = last.pre.unused
    /\ ( /\ Evaluated(NewSymbol)
         /\ NewSymbol \in DOMAIN grammar
         /\ NewSymbol \notin DOMAIN unused )
       => /\ last.returned = "False"
          /\ last.string = NewSymbol

\* The symbols the rules of symbol s refer to (the rules of these grammars
\* hold text and Symbol tokens)
Refs(g, s) ==
    UNION { { r.tokens[k].symbol :
                k \in { j \in 1 .. Len(r.tokens) : r.tokens[j].kind = "symbol" } } :
            r \in g[s] }

\* The symbols reached from the set `from` in n steps or fewer
RECURSIVE ReachedFrom(_, _, _)
ReachedFrom(g, from, n) ==
    IF n = 0 THEN from
    ELSE ReachedFrom(g, from \cup UNION { Refs(g, s) : s \in from \cap DOMAIN g },
                     n - 1)

\* No symbol reaches itself through the Symbol tokens of its rules
Acyclic(g) ==
    \A s \in DOMAIN g : s \notin ReachedFrom(g, Refs(g, s), Cardinality(DOMAIN g))

\* C28: for every grammar in which no symbol reaches itself through Symbol
\* references, evaluate_input terminates for every input, returning a
\* string or raising MayhapError.
C28_AcyclicTerminates ==
    (last.call.op = "handle_input" /\ Acyclic(grammar))
        => last.returned \in {"True", "False"}

\* What holds: with such a grammar no evaluation ends in RecursionError, and
\* the evaluation of the symbol that refers to itself does; the exceptions
\* that leave an evaluation are those of the text "cat(s)" and of the
\* symbols that add and remove have left without pool or without rule
C28_NoRecursionError ==
    /\ (last.call.op = "handle_input" /\ Acyclic(grammar))
          => /\ last.err # "RecursionError"
             /\ last.err \in {"", "UnboundLocalError", "KeyError", "IndexError"}
             /\ last.err = "UnboundLocalError"
                   <=> last.call.pattern = <<"c", "a", "t", "(", "s", ")">>
    /\ (Evaluated(<<"r">>) /\ <<"r">> \in DOMAIN unused)
          => last.err = "RecursionError"
    /\ (Evaluated(<<"b">>) /\ <<"b">> \in DOMAIN unused /\ last.err = "")
          => last.returned = "True"

\* C29: when add is given a rule text that fails to parse, the grammar and
\* the unused pools are after the command what they were before it, and
\* no add, with or without a rule, leaves a symbol with an empty rule set
\* that was not there before.
C29_FailedAddChangesNothing ==
    last.call.op = "do_add" =>
        /\ last.err # "" => grammar = last.pre.grammar /\ unused = last.pre.unused
        /\ \A s \in DOMAIN grammar :
              grammar[s] = {} => s \in DOMAIN last.pre.grammar

\* What holds: the pools are never changed by add, and the rule sets of the
\* symbols the grammar had are kept; an add that names a new symbol makes
\* it a symbol of the grammar before the rule text is parsed, with an empty
\* rule set when the text fails to parse or is missing
C29_AddKeepsOldSymbols ==
    last.call.op = "do_add" =>
        /\ unused = last.pre.unused
        /\ \A s \in DOMAIN last.pre.grammar :
              /\ s \in DOMAIN grammar
              /\ last.pre.grammar[s] \subseteq grammar[s]
              /\ last.err # "" => grammar[s] = last.pre.grammar[s]
        /\ ( /\ last.call.symbol \notin DOMAIN last.pre.grammar
             /\ last.call.pattern # <<>> )
           => /\ last.call.symbol \in DOMAIN grammar
              /\ (last.err # "" \/ CountOf(" ", last.call.pattern) = 0)
                    => grammar[last.call.symbol] = {}

----------------------------------------------------------------------------
(* A failed evaluation (claim C26)                                         *)

\* The input [v='y'][a][$u]: an assignment, a draw of a, and the read of a
\* variable that is never bound
FailsLate ==
    <<"[", "v", "=", "'", "y", "'", "]", "[", "a", "]", "[", "$", "u", "]">>

\* A step in which the evaluation of FailsLate has bound v, drawn a rule
\* of a and failed on the unbound u
FailedLateStep ==
    /\ last'.call.op = "handle_input"
    /\ last'.call.pattern = FailsLate
    /\ last'.returned = "False"
    /\ last'.string = <<"u">>

\* The pool of a as the draw finds it, after the refill of an empty pool
PoolDrawnFrom == IF unused[<<"a">>] = {} THEN grammar[<<"a">>] ELSE unused[<<"a">>]

----------------------------------------------------------------------------
(* The frame of a draw (claim C27)                                         *)

\* A step that is a direct call of produce
DrawStep == last'.call.op = "produce"

\* The pool of symbol s as the unique draw chooses from it
PoolChosenFrom(s) == IF unused[s] = {} THEN grammar[s] ELSE unused[s]

----------------------------------------------------------------------------
(* The lifetime of variable bindings (claim C30)                           *)

\* The token sequence holds an Assignment token
HasAssignment(tokens) ==
    \E k \in 1 .. Len(tokens) : tokens[k].kind = "assignment"

\* The call evaluates an Assignment token: one of its tokens, one written
\* in its input, or one of a rule of the symbol its input names
Assigns(call) ==
    \/ call.op = "evaluate_tokens" /\ HasAssignment(call.tokens)
    \/ /\ call.op \in {"evaluate_input", "handle_input"}
       /\ \/ CountOf("=", call.pattern) > 0
          \/ /\ call.pattern \in DOMAIN grammar
             /\ \E r \in grammar[call.pattern] : HasAssignment(r.tokens)

\* A step that is an evaluation, by any of the entry points
EvaluationStep ==
    last'.call.op \in {"evaluate_tokens", "evaluate_input", "handle_input"}

\* A step that reads v by evaluate_input, directly or through handle_input
ReadByInputStep ==
    /\ last'.call.op \in {"evaluate_input", "handle_input"}
    /\ last'.call.pattern = <<"[", "$", "v", "]">>
    /\ <<"v">> \in DOMAIN variables

\* C30: variable bindings outlive the evaluation that made them: no
\* evaluation, successful or failed, and no draw unbinds a variable; an
\* evaluation that holds no assignment leaves every binding as it was; and
\* a later evaluate_input reads the value bound by an earlier call.
C30_BindingsPersist ==
    [][ /\ (EvaluationStep \/ last'.call.op = "produce") =>
              /\ DOMAIN variables \subseteq DOMAIN variables'
              /\ ~Assigns(last'.call) => variables' = variables
        /\ ReadByInputStep =>
              /\ last'.err = ""
              /\ last'.string = variables[<<"v">>]
              /\ variables' = variables
      ]_vars

\* C30 witness: v was bound to "y" by an earlier call, a handle_input
\* failed, and the handle_input after it has read "y"
C30_Witness ==
    /\ last.call.op = "handle_input"
    /\ last.call.pattern = <<"[", "$", "v", "]">>
    /\ last.after = "False"
    /\ last.returned = "True"
    /\ last.string = <<"y">>
    /\ variables = (<<"v">> :> <<"y">>)

============================================================================
